---- MODULE Spec2Model ----
(***************************************************************************)
(* Model of the car-search service: the MCP WebSocket gateway              *)
(* (apps/web_sockets/mcp_consumer.py, mcp_handlers.py, serializers.py,     *)
(* views_sockets.py) and the LLM filter normaliser                         *)
(* (apps/terminal_agent/llm_interface.py).                                 *)
(*                                                                         *)
(* Conventions.  Python's None (and an absent JSON key) is the string      *)
(* "None".  Time read with datetime.now() on a connection is the number of *)
(* events that connection has dispatched.  JSON values handled by the      *)
(* normaliser are tagged records (see the section on the normaliser).      *)
(***************************************************************************)
EXTENDS Integers, Sequences, FiniteSets, TLC

VARIABLES
    conn,            \* conn[c]: "new" | "open" | "closed" (lifecycle of the consumer)
    room,            \* AbstractSocket.room
    inbox,           \* websocket events queued for the consumer, in arrival order
    chan,            \* channel-layer events (group_message) queued for the consumer
    pc,              \* "idle" | "await_handler": position of the consumer's task
    cur,             \* the mcp_request frame whose handler is awaited
    outbox,          \* every frame the consumer has sent to its client, in order
    search_history,  \* MCPCarSocket.search_history
    rlog,            \* history variable: the frames dispatched so far, in order
    ran,             \* history variable: handler_map entries that were invoked
    nsent,           \* number of frames the client has put on the wire
    closing,         \* the client has asked to close
    scope,           \* the ASGI scope of the connection (user, cookies, session)
    path,            \* which conversion path the normaliser run exercises
    raw_filters,     \* argument of _normalize_llm_filters (an ordered JSON object)
    preferences,     \* argument of _convert_preferences_to_filters
    filters,         \* the map the conversion returned
    npc,             \* "input" | "done": position of the normaliser run
    conversation_state, \* Command.conversation_state (preferences, search_history, current_results)
    session,         \* "running" | "ended": the input loop of the agent
    mode,            \* "interactive" | "piped": how the agent reads its input
    nturns,          \* number of turns processed so far
    last,            \* history variable: the last event of the input loop and what it did
    extraction,      \* one call of a provider's extract_car_preferences and what it gave
    search_call      \* one call of CarMCPHandler.handle_search_cars and its reply

gwVars == <<conn, room, inbox, chan, pc, cur, outbox, search_history, rlog, ran,
            nsent, closing, scope>>
normVars == <<path, raw_filters, preferences, filters, npc>>
agentVars == <<conversation_state, session, mode, nturns, last>>
callVars == <<extraction, search_call>>
vars == <<gwVars, normVars, agentVars, callVars>>

None == "None"

(***************************************************************************)
(* Bounds of the model.                                                    *)
(***************************************************************************)
MaxFrames == 2
MaxHistFrames == 52
MaxConcFrames == 4

\* The largest integer a string of the payloads spells.
MaxParsed == 9

\* The most keys a nested value of a payload holds.
MaxWrapperKeys == 3

\* The most turns of a conversation.
MaxTurns == 2

\* The most turns of a long conversation.
MaxHistTurns == 52

\* The largest page number and page size of a search request.
MaxPage == 2
MaxPageSize == 2

(***************************************************************************)
(* Program constants.                                                      *)
(***************************************************************************)
HistoryCap == 50

SupportedActions ==
    {"search_cars", "get_brands", "get_colors", "get_engines",
     "get_car_details", "get_filters_options"}

(***************************************************************************)
(* Inbound frames.  kind is what json.loads and the "type" key make of the *)
(* text; for an mcp_request, request_id is the envelope's id, shape says   *)
(* whether "data" is a JSON object, action and inner_id are data.action    *)
(* and data.request_id, and valid says whether the body passes             *)
(* SearchCarsRequestSerializer's field validation.                         *)
(***************************************************************************)
Frame(k, rid, sh, a, inner, v) ==
    [kind |-> k, request_id |-> rid, shape |-> sh, action |-> a,
     inner_id |-> inner, valid |-> v]

PlainFrame(k) == Frame(k, None, "dict", None, None, TRUE)

NoFrame == PlainFrame("none")
CloseEvent == PlainFrame("close")

McpFrames ==
    { Frame("mcp_request", rid, "dict", a, inner, v) :
        rid \in {None, "r1"},
        a \in SupportedActions \cup {"unsupported_action", None},
        inner \in {None, "x"},
        v \in BOOLEAN }

\* Every kind of frame.  A body that fails validation is drawn for search_cars
\* (the only action whose body fields are validated), a body with a
\* request_id of its own for search_cars and get_brands (one action per
\* serializer).
AllFrames ==
    { f \in McpFrames :
        /\ f.valid \/ (f.action = "search_cars" /\ f.inner_id = None)
        /\ f.inner_id = None \/ f.action \in {"search_cars", "get_brands"} }
    \cup { Frame("mcp_request", rid, "not_dict", None, None, TRUE) : rid \in {None, "r1"} }
    \cup { PlainFrame(k) : k \in {"bad_json", "non_object", "empty", "other", "broadcast"} }

\* The totals a search reply is given in the runs of the gateway (the catalog
\* behind the handler is not part of them).
Totals == {0, 1}

HistFrames == { Frame("mcp_request", None, "dict", "search_cars", None, TRUE) }

ConcFrames ==
    { Frame("mcp_request", "r1", "dict", "search_cars", None, TRUE),
      PlainFrame("bad_json"),
      PlainFrame("broadcast") }

(***************************************************************************)
(* Outbound frames.  re is a history field: the arrival index of the       *)
(* inbound frame the frame answers (0 for the welcome and for group        *)
(* messages).  success is "absent" where the envelope has no such key.     *)
(***************************************************************************)
Out(ty, ok, rid, code, err, total, re) ==
    [type |-> ty, success |-> ok, request_id |-> rid, error_code |-> code,
     error |-> err, total |-> total, re |-> re]

\* mcp_handlers.create_mcp_response
create_mcp_response(total, rid) ==
    Out("mcp_response", "true", rid, None, None, total, 0)

\* mcp_handlers.create_mcp_error
create_mcp_error(err, code, rid) ==
    Out("mcp_error", "false", rid, code, err, 0, 0)

\* MCPCarSocket.create_error_response
create_error_response(err, code, rid) ==
    Out("mcp_error", "absent", rid, code, err, 0, 0)

(***************************************************************************)
(* Room assignment (AbstractSocket.get_room).  A scope holds the user      *)
(* ("None", or a record-free pair: user_id with is_anonymous), the anon_id *)
(* cookie and the session key, each "None" when absent.                    *)
(***************************************************************************)
Scope(uid, anonymous, anon, sk) ==
    [user_id |-> uid, is_anonymous |-> anonymous, anon_id |-> anon, session_key |-> sk]

NoIdentity == Scope(None, TRUE, None, None)

\* A room choice that consults the session key before the anon_id cookie.
get_room_session_first(sc) ==
    IF sc.user_id # None /\ ~sc.is_anonymous
    THEN "user_" \o sc.user_id \o "_"
             \o (IF sc.session_key # None THEN sc.session_key ELSE "default")
    ELSE IF sc.session_key # None THEN "anonymous_" \o sc.session_key
    ELSE IF sc.anon_id # None THEN "anonymous_" \o sc.anon_id
    ELSE "general"

get_room(sc) ==
    IF sc.user_id # None /\ ~sc.is_anonymous
    THEN "user_" \o sc.user_id \o "_"
             \o (IF sc.session_key # None THEN sc.session_key ELSE "default")
    ELSE IF sc.anon_id # None THEN "anonymous_" \o sc.anon_id
    ELSE IF sc.session_key # None THEN "anonymous_" \o sc.session_key
    ELSE "general"

(***************************************************************************)
(* MCPHandler.handle_request and the six handlers of CarMCPHandler.        *)
(* outcome is what the catalog store does to the handler's query:          *)
(* "ok", "raise" (the query throws), and for get_car_details "missing"     *)
(* (no car_id in the body) and "not_found".                                *)
(***************************************************************************)
Outcomes(f) ==
    IF f.shape # "dict" \/ f.action \notin SupportedActions THEN {"ok"}
    ELSE IF f.action = "search_cars" /\ ~f.valid THEN {"ok"}
    ELSE IF f.action = "get_car_details" THEN {"ok", "raise", "missing", "not_found"}
    ELSE {"ok", "raise"}

HandlerErrorCode(a) ==
    CASE a = "search_cars" -> "SEARCH_ERROR"
      [] a = "get_brands" -> "BRANDS_ERROR"
      [] a = "get_colors" -> "COLORS_ERROR"
      [] a = "get_engines" -> "ENGINES_ERROR"
      [] a = "get_car_details" -> "CAR_DETAILS_ERROR"
      [] OTHER -> "FILTERS_OPTIONS_ERROR"

\* validated_data.get("request_id"): SearchCarsRequestSerializer is given the
\* body alone, MCPRequestSerializer the envelope, whose validate() then copies
\* the body's own request_id over it.
validated_request_id(rid, f) ==
    IF f.action = "search_cars" THEN f.inner_id
    ELSE IF f.inner_id # None THEN f.inner_id
    ELSE rid

\* One of the handle_* methods, called with the validated data.
run_handler(f, rid, outcome, total) ==
    CASE outcome = "raise" ->
            create_mcp_error("Erro no handler", HandlerErrorCode(f.action), rid)
      [] outcome = "missing" ->
            create_mcp_error("ID do carro é obrigatório", "MISSING_CAR_ID", rid)
      [] outcome = "not_found" ->
            create_mcp_error("Carro não encontrado", "CAR_NOT_FOUND", rid)
      [] OTHER ->
            create_mcp_response(IF f.action = "search_cars" THEN total ELSE 0, rid)

\* Whether handle_request reaches "return await handler(validated_data)".
HandlerRuns(f) ==
    /\ f.shape = "dict"
    /\ f.action \in SupportedActions
    /\ (f.action = "search_cars" => f.valid)

\* Variant: the handler_map lookup is not checked before the call.
handle_request_unchecked(rid, f, outcome, total) ==
    IF f.shape # "dict"
    THEN create_mcp_error("Erro interno do servidor", "INTERNAL_ERROR", rid)
    ELSE IF f.action = "search_cars" /\ ~f.valid
    THEN create_mcp_error("Dados de requisição inválidos", "INVALID_REQUEST", rid)
    ELSE run_handler(f, validated_request_id(rid, f), outcome, total)

handle_request(rid, f, outcome, total) ==
    IF f.shape # "dict"
    THEN create_mcp_error("Erro interno do servidor", "INTERNAL_ERROR", rid)
    ELSE IF f.action = "search_cars" /\ ~f.valid
    THEN create_mcp_error("Dados de requisição inválidos", "INVALID_REQUEST", rid)
    ELSE IF f.action \notin SupportedActions
    THEN create_mcp_error("Ação '" \o f.action \o "' não suportada",
                          "UNSUPPORTED_ACTION", validated_request_id(rid, f))
    ELSE run_handler(f, validated_request_id(rid, f), outcome, total)

(***************************************************************************)
(* The search history of a connection.                                     *)
(***************************************************************************)
\* MCPCarSocket.create_search_entry
create_search_entry(now, response) ==
    [timestamp |-> now,
     results_count |-> IF response.success = "true" THEN response.total ELSE 0,
     success |-> (response.success = "true")]

\* Variant: the truncation keeps the oldest 50 entries.
add_to_search_history_keep_oldest(h, entry) ==
    LET h2 == Append(h, entry)
    IN  IF Len(h2) > HistoryCap THEN SubSeq(h2, 1, HistoryCap) ELSE h2

\* MCPCarSocket._add_to_search_history
add_to_search_history(h, entry) ==
    LET h2 == Append(h, entry)
    IN  IF Len(h2) > HistoryCap
        THEN SubSeq(h2, Len(h2) - HistoryCap + 1, Len(h2))
        ELSE h2

(***************************************************************************)
(* The consumer.  Channels runs one task per connection, which dispatches  *)
(* the connection's events one after the other: an event is taken only     *)
(* when the previous handler has returned (pc = "idle").                   *)
(***************************************************************************)
Conns == DOMAIN conn

\* The event the consumer's task dispatches next.
next_event(q) == Head(q)

\* self.send / self.send_json: the frame goes out after those already sent.
send_json(out, frame, k) == Append(out, [frame EXCEPT !.re = k])

\* The connections that group_send(room, ...) reaches: those added to the
\* group on connect and not yet discarded on disconnect.
group_members(r) == { d \in Conns : conn[d] = "open" /\ room[d] = r }

\* AbstractSocket.connect followed by MCPCarSocket.connect.
Connect(c) ==
    /\ conn[c] = "new"
    /\ conn' = [conn EXCEPT ![c] = "open"]
    /\ room' = [room EXCEPT ![c] = get_room(scope[c])]
    /\ outbox' = [outbox EXCEPT ![c] =
            send_json(@, Out("mcp_welcome", "absent", None, None, None, 0, 0), 0)]
    /\ UNCHANGED <<inbox, chan, pc, cur, search_history, rlog, ran, nsent, closing, scope>>
    /\ UNCHANGED <<normVars, agentVars, callVars>>

\* The client puts a text frame on the wire.
ClientSend(c, f, max) ==
    /\ conn[c] = "open"
    /\ ~closing[c]
    /\ nsent[c] < max
    /\ inbox' = [inbox EXCEPT ![c] = Append(@, f)]
    /\ nsent' = [nsent EXCEPT ![c] = @ + 1]
    /\ UNCHANGED <<conn, room, chan, pc, cur, outbox, search_history, rlog, ran, closing, scope>>
    /\ UNCHANGED <<normVars, agentVars, callVars>>

\* The client closes the connection: websocket.disconnect is queued behind
\* the frames already sent.
ClientClose(c) ==
    /\ conn[c] = "open"
    /\ ~closing[c]
    /\ inbox' = [inbox EXCEPT ![c] = Append(@, CloseEvent)]
    /\ closing' = [closing EXCEPT ![c] = TRUE]
    /\ UNCHANGED <<conn, room, chan, pc, cur, outbox, search_history, rlog, ran, nsent, scope>>
    /\ UNCHANGED <<normVars, agentVars, callVars>>

\* What MCPCarSocket.receive sends for a frame that is not an mcp_request.
\* layer_ok: whether the channel layer accepts the group_send of a broadcast.
plain_replies(f, layer_ok) ==
    CASE f.kind = "bad_json" ->
            <<create_error_response("JSON inválido", "INVALID_JSON", None)>>
      [] f.kind = "non_object" ->
            <<create_error_response("Erro interno", "INTERNAL_ERROR", None)>>
      [] f.kind = "other" ->
            <<Out("echo", "absent", None, None, None, 0, 0)>>
      [] f.kind = "broadcast" /\ layer_ok ->
            <<Out("echo", "absent", None, None, None, 0, 0)>>
      [] f.kind = "broadcast" /\ ~layer_ok ->
            <<Out("echo", "absent", None, None, None, 0, 0),
              Out("error", "absent", None, None, "Erro ao processar mensagem", 0, 0)>>
      [] OTHER -> <<>>

RECURSIVE send_all(_, _, _)
send_all(out, frames, k) ==
    IF frames = <<>> THEN out
    ELSE send_all(send_json(out, Head(frames), k), Tail(frames), k)

\* Variant: the JSON error is not caught, and the consumer ends.
after_event_propagates(st, f) ==
    IF f.kind \in {"close", "bad_json"} THEN "closed" ELSE st

\* The lifecycle after an event is dispatched: receive catches every
\* exception, so only websocket.disconnect ends the consumer.
after_event(st, f) == IF f.kind = "close" THEN "closed" ELSE st

\* Variant: every action is recorded in the history.
history_after_any_action(h, f, k, response) ==
    IF f.shape = "dict"
    THEN add_to_search_history(h, create_search_entry(k, response))
    ELSE h

\* _handle_mcp_request after the handler returned: the history entry.  When
\* "data" is not an object, request_data.get("action") raises before it.
history_after(h, f, k, response) ==
    IF f.shape = "dict" /\ f.action = "search_cars"
    THEN add_to_search_history(h, create_search_entry(k, response))
    ELSE h

\* Variant: an error envelope of the handler is not sent.
request_replies_dropped(f, response) ==
    IF f.shape # "dict" \/ response.success # "true" THEN <<>> ELSE <<response>>

\* _handle_mcp_request after the handler returned: the frames sent.  The
\* except branch answers with the envelope's own request_id.
request_replies(f, response) ==
    IF f.shape # "dict"
    THEN <<create_error_response("Erro ao processar requisição",
                                 "REQUEST_PROCESSING_ERROR", f.request_id)>>
    ELSE <<response>>

\* MCPCarSocket.receive (and websocket_disconnect for a close event), up to
\* the first suspension point: for an mcp_request, the await of the handler.
Receive(c, layer_ok) ==
    /\ conn[c] = "open"
    /\ pc[c] = "idle"
    /\ inbox[c] # <<>>
    /\ LET f == next_event(inbox[c])
           k == Len(rlog[c]) + 1
       IN  /\ inbox' = [inbox EXCEPT ![c] = Tail(@)]
           /\ rlog' = [rlog EXCEPT ![c] = Append(@, f)]
           /\ conn' = [conn EXCEPT ![c] = after_event(@, f)]
           /\ pc' = [pc EXCEPT ![c] = IF f.kind = "mcp_request" THEN "await_handler" ELSE @]
           /\ cur' = [cur EXCEPT ![c] = IF f.kind = "mcp_request" THEN f ELSE @]
           /\ outbox' = [outbox EXCEPT ![c] = send_all(@, plain_replies(f, layer_ok), k)]
           /\ chan' = IF f.kind = "broadcast" /\ layer_ok
                      THEN [d \in Conns |->
                               IF d \in group_members(room[c])
                               THEN Append(chan[d], "broadcast") ELSE chan[d]]
                      ELSE chan
    /\ UNCHANGED <<room, search_history, ran, nsent, closing, scope>>
    /\ UNCHANGED <<normVars, agentVars, callVars>>

\* MCPCarSocket._handle_mcp_request from the return of the handler on: the
\* history entry, then the reply.
Complete(c, outcome, total) ==
    /\ conn[c] = "open"
    /\ pc[c] = "await_handler"
    /\ LET f == cur[c]
           k == Len(rlog[c])
           request_id == IF f.request_id = None THEN "req_" \o ToString(k)
                         ELSE f.request_id
           response == handle_request(request_id, f, outcome, total)
       IN  /\ outcome \in Outcomes(f)
           /\ ran' = [ran EXCEPT ![c] =
                        IF HandlerRuns(f)
                        THEN Append(@, [re |-> k, action |-> f.action, outcome |-> outcome])
                        ELSE @]
           /\ search_history' = [search_history EXCEPT ![c] = history_after(@, f, k, response)]
           /\ outbox' = [outbox EXCEPT ![c] = send_all(@, request_replies(f, response), k)]
    /\ pc' = [pc EXCEPT ![c] = "idle"]
    /\ cur' = [cur EXCEPT ![c] = NoFrame]
    /\ UNCHANGED <<conn, room, inbox, chan, rlog, nsent, closing, scope>>
    /\ UNCHANGED <<normVars, agentVars, callVars>>

\* MCPCarSocket.group_message: a broadcast of the room is passed to the client.
GroupDeliver(c) ==
    /\ conn[c] = "open"
    /\ pc[c] = "idle"
    /\ chan[c] # <<>>
    /\ chan' = [chan EXCEPT ![c] = Tail(@)]
    /\ outbox' = [outbox EXCEPT ![c] =
            send_json(@, Out("broadcast", "absent", None, None, None, 0, 0), 0)]
    /\ UNCHANGED <<conn, room, inbox, pc, cur, search_history, rlog, ran, nsent, closing, scope>>
    /\ UNCHANGED <<normVars, agentVars, callVars>>

(***************************************************************************)
(* The filter normalizer (LLMInterface).  A JSON value is a tagged record; *)
(* a dict is the sequence of its <<key, value>> items in insertion order,  *)
(* with distinct keys, as a Python dict keeps them.                        *)
(***************************************************************************)
Null == [t |-> "null"]

Num(n) == [t |-> "int", n |-> n]

\* A float n + tenths/10, n >= 0.
Flt(n, tenths) == [t |-> "float", n |-> n, frac |-> tenths]

Str(s) == [t |-> "str", s |-> s]

Dict(items) == [t |-> "dict", items |-> items]

dict_keys(d) == {d[i][1] : i \in DOMAIN d}

\* k in d
dict_has(d, k) == k \in dict_keys(d)

\* d.get(k, default)
dict_get(d, k, default) ==
    IF dict_has(d, k)
    THEN d[CHOOSE i \in DOMAIN d : d[i][1] = k][2]
    ELSE default

\* d[k] = v: an existing key keeps its position and takes the new value.
dict_set(d, k, v) ==
    IF dict_has(d, k)
    THEN [d EXCEPT ![CHOOSE i \in DOMAIN d : d[i][1] = k] = <<k, v>>]
    ELSE Append(d, <<k, v>>)

\* Variant: the comprehension tests the truth value (if v) of the value.
drop_falsy(d) == SelectSeq(d, LAMBDA item : item[2] \notin {Null, Num(0), Str("")})

\* {k: v for k, v in d.items() if v is not None}
drop_none(d) == SelectSeq(d, LAMBDA item : item[2] # Null)

\* int(value): an int is itself, a float is truncated, a string is parsed
\* as a decimal literal, anything else raises.
py_int(value) ==
    CASE value.t = "int" -> [ok |-> TRUE, n |-> value.n]
      [] value.t = "float" -> [ok |-> TRUE, n |-> value.n]
      [] value.t = "str" ->
            IF \E n \in 0..MaxParsed : ToString(n) = value.s
            THEN [ok |-> TRUE, n |-> CHOOSE n \in 0..MaxParsed : ToString(n) = value.s]
            ELSE [ok |-> FALSE, n |-> 0]
      [] OTHER -> [ok |-> FALSE, n |-> 0]

key_synonyms(k) ==
    CASE k \in {"marca", "brand", "nome_marca"} -> "brand_name"
      [] k \in {"modelo", "nome_carro"} -> "car_name"
      [] k = "cor" -> "color_name"
      [] k = "motor" -> "engine_name"
      [] k = "combustivel" -> "fuel_type"
      [] k = "transmissao" -> "transmission"
      [] k = "preco_min" -> "price_min"
      [] k = "preco_max" -> "price_max"
      [] k = "ano_min" -> "year_manufacture_min"
      [] k = "ano_max" -> "year_manufacture_max"
      [] k = "quilometragem_min" -> "mileage_min"
      [] k = "quilometragem_max" -> "mileage_max"
      [] k = "portas" -> "doors"
      [] OTHER -> k

EqualityMarkers == <<"$eq", "eq", "=", "value">>

strip_operator(value) ==
    IF value.t = "dict" /\ \E i \in DOMAIN EqualityMarkers : dict_has(value.items, EqualityMarkers[i])
    THEN LET i == CHOOSE j \in DOMAIN EqualityMarkers :
                    /\ dict_has(value.items, EqualityMarkers[j])
                    /\ \A h \in 1..(j - 1) : ~dict_has(value.items, EqualityMarkers[h])
         IN  dict_get(value.items, EqualityMarkers[i], Null)
    ELSE value

\* The first loop of _normalize_llm_filters: synonyms and trivial operators.
RECURSIVE remap_keys(_, _)
remap_keys(items, temp) ==
    IF items = <<>> THEN temp
    ELSE remap_keys(Tail(items),
                    dict_set(temp, key_synonyms(Head(items)[1]), strip_operator(Head(items)[2])))

\* min_val of a range dict.
range_min(d) ==
    LET explicit == IF dict_has(d, "$gte") \/ dict_has(d, "gte")
                    THEN dict_get(d, "$gte", dict_get(d, "gte", Null))
                    ELSE Null
    IN  IF dict_has(d, "min") /\ explicit = Null THEN dict_get(d, "min", Null) ELSE explicit

\* max_val of a range dict.
range_max(d) ==
    LET explicit == IF dict_has(d, "$lte") \/ dict_has(d, "lte")
                    THEN dict_get(d, "$lte", dict_get(d, "lte", Null))
                    ELSE Null
    IN  IF dict_has(d, "max") /\ explicit = Null THEN dict_get(d, "max", Null) ELSE explicit

RangeKeys == {"price", "year_manufacture", "mileage", "doors"}

\* A dict under a range-capable key: the bounds that are not None.
emit_range(normalized, key, d) ==
    LET with_min == IF range_min(d) # Null
                    THEN dict_set(normalized, key \o "_min", range_min(d))
                    ELSE normalized
    IN  IF range_max(d) # Null
        THEN dict_set(with_min, key \o "_max", range_max(d))
        ELSE with_min

\* Variant: a dict of several keys is reduced to its first value.
reduce_dict_first_value(normalized, key, d) ==
    IF Len(d) >= 1 THEN dict_set(normalized, key, d[1][2]) ELSE normalized

\* A dict under any other key: reduced to its value when it has one key,
\* ignored otherwise.
reduce_dict(normalized, key, d) ==
    IF Len(d) = 1 THEN dict_set(normalized, key, d[1][2]) ELSE normalized

\* Variant: only the lower bound is written.
doors_rule_min_only(normalized, value) ==
    IF py_int(value).ok
    THEN dict_set(normalized, "doors_min", Num(py_int(value).n))
    ELSE normalized

\* A plain value under doors.
doors_rule(normalized, value) ==
    IF py_int(value).ok
    THEN dict_set(dict_set(normalized, "doors_min", Num(py_int(value).n)),
                  "doors_max", Num(py_int(value).n))
    ELSE normalized

\* A plain value under year / ano that int() accepts.
year_rule(normalized, value) ==
    LET y == Num(py_int(value).n)
    IN  dict_set(dict_set(dict_set(dict_set(normalized,
            "year_manufacture_min", y), "year_manufacture_max", y),
            "year_model_min", y), "year_model_max", y)

\* One iteration of the second loop of _normalize_llm_filters.
normalize_item(normalized, key, value) ==
    IF value = Null \/ value = Str("") THEN normalized
    ELSE IF value.t = "dict"
    THEN IF key \in RangeKeys
         THEN emit_range(normalized, key, value.items)
         ELSE reduce_dict(normalized, key, value.items)
    ELSE IF key = "doors" THEN doors_rule(normalized, value)
    ELSE IF key \in {"year", "ano"} /\ py_int(value).ok THEN year_rule(normalized, value)
    ELSE dict_set(normalized, key, value)

RECURSIVE normalize_items(_, _)
normalize_items(temp, normalized) ==
    IF temp = <<>> THEN normalized
    ELSE normalize_items(Tail(temp),
                         normalize_item(normalized, Head(temp)[1], Head(temp)[2]))

_normalize_llm_filters(raw) ==
    IF raw.t # "dict" THEN <<>>
    ELSE drop_none(normalize_items(remap_keys(raw.items, <<>>), <<>>))

\* Python truth value of a JSON value.
truthy(value) ==
    CASE value.t = "null" -> FALSE
      [] value.t = "inf" -> TRUE
      [] value.t = "int" -> value.n # 0
      [] value.t = "float" -> value.n # 0 \/ value.frac # 0
      [] value.t = "str" -> value.s # ""
      [] OTHER -> value.items # <<>>

\* A price rule whose luxury category also caps the price.
price_rule_luxo_capped(filters0, faixa_preco) ==
    CASE faixa_preco = Str("economico") -> dict_set(filters0, "price_max", Num(50000))
      [] faixa_preco \in {Str("medio"), Str("luxo")} ->
            dict_set(dict_set(filters0, "price_min", Num(30000)), "price_max", Num(100000))
      [] OTHER -> filters0

\* The bounds a price category sets.
price_rule(filters0, faixa_preco) ==
    CASE faixa_preco = Str("economico") -> dict_set(filters0, "price_max", Num(50000))
      [] faixa_preco = Str("medio") ->
            dict_set(dict_set(filters0, "price_min", Num(30000)), "price_max", Num(100000))
      [] faixa_preco = Str("luxo") -> dict_set(filters0, "price_min", Num(100000))
      [] OTHER -> filters0

\* A year rule that, like the mileage and door rules, skips a falsy value.
ano_rule_truthy(filters0, ano) ==
    CASE ano.t = "int" /\ truthy(ano) ->
            dict_set(dict_set(dict_set(dict_set(filters0,
                "year_manufacture_min", ano), "year_manufacture_max", ano),
                "year_model_min", ano), "year_model_max", ano)
      [] ano = Str("recente") ->
            dict_set(dict_set(filters0, "year_manufacture_min", Num(2020)),
                     "year_model_min", Num(2020))
      [] ano = Str("antigo") ->
            dict_set(dict_set(filters0, "year_manufacture_max", Num(2015)),
                     "year_model_max", Num(2015))
      [] OTHER -> filters0

\* The year windows: an integer pins both, a category opens one side.
ano_rule(filters0, ano) ==
    CASE ano.t = "int" ->
            dict_set(dict_set(dict_set(dict_set(filters0,
                "year_manufacture_min", ano), "year_manufacture_max", ano),
                "year_model_min", ano), "year_model_max", ano)
      [] ano = Str("recente") ->
            dict_set(dict_set(filters0, "year_manufacture_min", Num(2020)),
                     "year_model_min", Num(2020))
      [] ano = Str("antigo") ->
            dict_set(dict_set(filters0, "year_manufacture_max", Num(2015)),
                     "year_model_max", Num(2015))
      [] OTHER -> filters0

quilometragem_rule(filters0, quilometragem) ==
    IF truthy(quilometragem) /\ quilometragem.t \in {"int", "float"}
    THEN dict_set(filters0, "mileage_max", Num(py_int(quilometragem).n))
    ELSE filters0

portas_rule(filters0, portas) ==
    IF truthy(portas) /\ portas.t \in {"int", "float"}
    THEN dict_set(dict_set(filters0, "doors_min", Num(py_int(portas).n)),
                  "doors_max", Num(py_int(portas).n))
    ELSE filters0

_convert_preferences_to_filters(prefs) ==
    LET filters0 == << <<"brand_name", dict_get(prefs, "marca", Null)>>,
                       <<"price_min", Null>>, <<"price_max", Null>>,
                       <<"year_manufacture_min", Null>>, <<"year_manufacture_max", Null>>,
                       <<"year_model_min", Null>>, <<"year_model_max", Null>>,
                       <<"fuel_type", dict_get(prefs, "combustivel", Null)>>,
                       <<"transmission", dict_get(prefs, "transmissao", Null)>>,
                       <<"color_name", dict_get(prefs, "cor", Null)>>,
                       <<"doors_min", Null>>, <<"doors_max", Null>>,
                       <<"mileage_min", Null>>, <<"mileage_max", Null>> >>
    IN  drop_none(
          portas_rule(
            quilometragem_rule(
              ano_rule(
                price_rule(filters0, dict_get(prefs, "faixa_preco", Null)),
                dict_get(prefs, "ano", Null)),
              dict_get(prefs, "quilometragem", Null)),
            dict_get(prefs, "portas", Null)))

\* The fields of CarFilterSerializer: the keys the search accepts.
CanonicalKeys ==
    {"brand_id", "brand_name", "color_id", "color_name", "engine_id", "engine_name",
     "car_model_id", "car_model_name", "car_name_id", "car_name",
     "year_manufacture_min", "year_manufacture_max", "year_model_min", "year_model_max",
     "price_min", "price_max", "mileage_min", "mileage_max", "doors_min", "doors_max",
     "fuel_type", "transmission", "search"}

(***************************************************************************)
(* The payloads the normalizer is applied to.                              *)
(***************************************************************************)
RawKeys == {"price", "price_min", "doors", "portas", "doors_min", "brand_name",
            "marca", "year_manufacture", "ano", "foo"}

Scalars == {Null, Num(2), Num(4), Flt(4, 7), Str("4"), Str("abc"), Str("")}

\* The keys that are given a nested value.
WrapKeys == {"price", "doors", "brand_name", "marca", "year_manufacture"}

MarkerOrder == <<"$gte", "gte", "min", "$lte", "lte", "max", "$eq", "x", "y">>

Markers == {MarkerOrder[i] : i \in DOMAIN MarkerOrder}

\* Each marker carries a value of its own, so that the output shows which
\* marker supplied a bound.
MarkerValue(m) == Num(CHOOSE i \in DOMAIN MarkerOrder : MarkerOrder[i] = m)

\* The items of the markers of S, in the order of ms: those of N hold null,
\* and the marker x holds a dict when nested.
RECURSIVE wrapper_items(_, _, _, _)
wrapper_items(ms, S, N, nested) ==
    IF ms = <<>> THEN <<>>
    ELSE LET m == Head(ms)
             v == IF m \in N THEN Null
                  ELSE IF nested /\ m = "x" THEN Dict(<< <<"a", Num(1)>> >>)
                  ELSE MarkerValue(m)
         IN  (IF m \in S THEN << <<m, v>> >> ELSE <<>>) \o wrapper_items(Tail(ms), S, N, nested)

Wrapper(S, N, nested) == Dict(wrapper_items(MarkerOrder, S, N, nested))

Wrappers ==
    UNION {UNION {{Wrapper(S, N, nested) : nested \in {b \in BOOLEAN : b => "x" \in S \ N}}
                  : N \in SUBSET S}
           : S \in {T \in SUBSET Markers : Cardinality(T) <= MaxWrapperKeys}}

SubjectItems == (RawKeys \X Scalars) \cup (WrapKeys \X Wrappers)

SiblingItems == RawKeys \X {Num(2), Str("abc")}

NoItem == <<>>

\* A payload of one item, or of that item and a second one before or after it.
RawPayload(s, b, b_first) ==
    IF b = NoItem THEN Dict(<<s>>)
    ELSE IF b_first THEN Dict(<<b, s>>)
    ELSE Dict(<<s, b>>)

\* What a backend may return in place of a JSON object.
NonDictPayloads == {Null, Str("abc")}

\* The values of an already canonical filter set.
CanonicalValues == {Num(0), Num(4), Flt(4, 7), Str("abc"), Str("")}

\* A filter set of one or two canonical keys.
CanonicalPayload(k1, v1, k2, v2) ==
    IF k1 = k2 THEN Dict(<< <<k1, v1>> >>) ELSE Dict(<< <<k1, v1>>, <<k2, v2>> >>)

\* A preference map as _validate_preferences leaves it: no null values.
PreferenceMap(marca, faixa_preco, ano, quilometragem, portas) ==
    drop_none(<< <<"marca", marca>>, <<"faixa_preco", faixa_preco>>, <<"ano", ano>>,
                 <<"quilometragem", quilometragem>>, <<"portas", portas>> >>)

PreferenceMaps ==
    {PreferenceMap(m, fp, a, q, p) :
        m \in {Null, Str("Audi"), Dict(<< <<"nome", Str("Audi")>> >>)},
        fp \in {Null, Str("economico"), Str("medio"), Str("luxo"), Str("abc")},
        a \in {Null, Num(0), Num(4), Str("recente"), Str("antigo"), Str("4")},
        q \in {Null, Num(0), Num(4), Flt(4, 7), Str("4")},
        p \in {Null, Num(4), Flt(4, 7), Str("4")}}

(***************************************************************************)
(* Initial states.                                                         *)
(***************************************************************************)
NormIdle ==
    /\ path = "none"
    /\ raw_filters = Null
    /\ preferences = <<>>
    /\ filters = <<>>
    /\ npc = "done"

\* Command.__init__
NewConversation == [preferences |-> <<>>, search_history |-> <<>>, current_results |-> <<>>]

NoTurn == [event |-> "none"]

AgentIdle ==
    /\ conversation_state = NewConversation
    /\ session = "running"
    /\ mode = "interactive"
    /\ nturns = 0
    /\ last = NoTurn

\* No call of the extraction or of the search is under way.
NoCallMade == [pc |-> "none"]

CallsIdle ==
    /\ extraction = NoCallMade
    /\ search_call = NoCallMade

\* The consumers of the connections C, each constructed on its own scope.
GatewayStart(C, scopes) ==
    /\ conn = [c \in C |-> "new"]
    /\ room = [c \in C |-> None]
    /\ inbox = [c \in C |-> <<>>]
    /\ chan = [c \in C |-> <<>>]
    /\ pc = [c \in C |-> "idle"]
    /\ cur = [c \in C |-> NoFrame]
    /\ outbox = [c \in C |-> <<>>]
    /\ search_history = [c \in C |-> <<>>]
    /\ rlog = [c \in C |-> <<>>]
    /\ ran = [c \in C |-> <<>>]
    /\ nsent = [c \in C |-> 0]
    /\ closing = [c \in C |-> FALSE]
    /\ scope = scopes

GatewayInit(C, sc) == GatewayStart(C, [c \in C |-> sc])

\* One connection, every kind of frame.
Init == GatewayInit({1}, NoIdentity) /\ NormIdle /\ AgentIdle /\ CallsIdle

Next ==
    \/ \E c \in Conns : Connect(c)
    \/ \E c \in Conns, f \in AllFrames : ClientSend(c, f, MaxFrames)
    \/ \E c \in Conns : ClientClose(c)
    \/ \E c \in Conns, layer_ok \in BOOLEAN : Receive(c, layer_ok)
    \/ \E c \in Conns, o \in {"ok", "raise", "missing", "not_found"}, t \in Totals :
          Complete(c, o, t)
    \/ \E c \in Conns : GroupDeliver(c)

Spec == Init /\ [][Next]_vars

\* Two connections in one room, interleaved.
InitConc == GatewayInit({1, 2}, NoIdentity) /\ NormIdle /\ AgentIdle /\ CallsIdle

NextConc ==
    \/ \E c \in Conns : Connect(c)
    \/ \E c \in Conns, f \in ConcFrames :
          nsent[1] + nsent[2] < MaxConcFrames /\ ClientSend(c, f, MaxConcFrames)
    \/ \E c \in Conns : Receive(c, TRUE)
    \/ \E c \in Conns, o \in {"ok", "raise"} : Complete(c, o, 1)
    \/ \E c \in Conns : GroupDeliver(c)

SpecConc == InitConc /\ [][NextConc]_vars

\* One connection that only searches, long enough to fill the history.
InitHistory == GatewayInit({1}, NoIdentity) /\ NormIdle /\ AgentIdle /\ CallsIdle

NextHistory ==
    \/ \E c \in Conns : Connect(c)
    \/ \E c \in Conns, f \in HistFrames : ClientSend(c, f, MaxHistFrames)
    \/ \E c \in Conns : Receive(c, TRUE)
    \/ \E c \in Conns : Complete(c, "ok", 1)

SpecHistory == InitHistory /\ [][NextHistory]_vars

(***************************************************************************)
(* Properties of the gateway.                                              *)
(***************************************************************************)
\* The k-th dispatched frame of c has been fully handled.
Handled(c, k) == k < Len(rlog[c]) \/ (k = Len(rlog[c]) /\ pc[c] = "idle")

\* The frames c sent in answer to its k-th dispatched frame.
RepliesTo(c, k) == SelectSeq(outbox[c], LAMBDA r : r.re = k)

IsRequest(f) == f.kind = "mcp_request"

\* The arrival indexes of the mcp_request frames c has dispatched, in order.
RequestIndexes(c) ==
    SelectSeq([k \in 1..Len(rlog[c]) |-> k], LAMBDA k : IsRequest(rlog[c][k]))

\* The arrival indexes answered by the replies c sent to mcp_request frames,
\* in the order the replies were sent.
AnsweredIndexes(c) ==
    LET sel == SelectSeq(outbox[c], LAMBDA r : r.re > 0 /\ IsRequest(rlog[c][r.re]))
    IN  [i \in 1..Len(sel) |-> sel[i].re]

\* C1: every reply to an mcp_request frame carries the request_id of its
\* request: the id the request supplied, or else the non-null id the gateway
\* generated for it.  Stated for the requests of the documented frame format:
\* "data" is an object and the id, if any, is the envelope's.
C1_RequestIdEchoed ==
    \A c \in Conns : \A i \in 1..Len(outbox[c]) :
        LET r == outbox[c][i]
        IN  (r.re > 0 /\ IsRequest(rlog[c][r.re])
                /\ rlog[c][r.re].shape = "dict" /\ rlog[c][r.re].inner_id = None) =>
                LET q == rlog[c][r.re]
                IN  IF q.request_id # None
                    THEN r.request_id = q.request_id
                    ELSE r.request_id = "req_" \o ToString(r.re)

\* C2: on each connection requests are handled one at a time, every handled
\* mcp_request frame has exactly one reply, and the replies are in the order
\* of the requests, whatever the other connections do.
C2_SerialOrderedReplies ==
    \A c \in Conns :
        /\ pc[c] = "await_handler" =>
              /\ rlog[c] # <<>>
              /\ cur[c] = rlog[c][Len(rlog[c])]
        /\ pc[c] = "idle" => cur[c] = NoFrame
        /\ AnsweredIndexes(c) =
              SelectSeq(RequestIndexes(c), LAMBDA k : Handled(c, k))

\* C2 witness: connection 1 has answered two requests, with a broadcast of the
\* room sent in between, while connection 2 awaits a handler.
C2_Witness ==
    /\ Conns = {1, 2}
    /\ Len(AnsweredIndexes(1)) = 2
    /\ \E i, j, l \in 1..Len(outbox[1]) :
          /\ i < j /\ j < l
          /\ outbox[1][i].re = 1 /\ outbox[1][j].type = "broadcast" /\ outbox[1][l].re = 2
    /\ pc[2] = "await_handler"

Raises(c, k) ==
    LET q == rlog[c][k]
    IN  \/ q.kind \in {"bad_json", "non_object"}
        \/ IsRequest(q) /\ q.shape # "dict"
        \/ \E i \in 1..Len(ran[c]) : ran[c][i].re = k /\ ran[c][i].outcome = "raise"

\* C4: no inbound frame ends the connection.  Invalid JSON is answered with an
\* mcp_error frame with code INVALID_JSON, an exception raised while a frame
\* is handled is answered with an error frame, every later frame is still
\* answered, and the connection is closed only once the client closed it.
C4_ConnectionSurvives ==
    \A c \in Conns :
        /\ conn[c] = "closed" =>
              /\ closing[c]
              /\ rlog[c][Len(rlog[c])] = CloseEvent
        /\ \A k \in 1..Len(rlog[c]) :
              LET q == rlog[c][k]
              IN  Handled(c, k) =>
                    /\ q.kind = "bad_json" =>
                          /\ Len(RepliesTo(c, k)) = 1
                          /\ RepliesTo(c, k)[1].type = "mcp_error"
                          /\ RepliesTo(c, k)[1].error_code = "INVALID_JSON"
                    /\ Raises(c, k) =>
                          /\ Len(RepliesTo(c, k)) = 1
                          /\ RepliesTo(c, k)[1].type = "mcp_error"
                          /\ RepliesTo(c, k)[1].success # "true"
                    /\ q.kind \in {"bad_json", "non_object", "other", "broadcast",
                                   "mcp_request"} => RepliesTo(c, k) # <<>>

\* C4 witness: invalid JSON, then a request whose handler throws, then a
\* request that succeeds, all answered on the open connection.
C4_Witness ==
    /\ conn[1] = "open"
    /\ pc[1] = "idle"
    /\ Len(rlog[1]) = 2
    /\ rlog[1][1].kind = "bad_json"
    /\ RepliesTo(1, 1) # <<>> /\ RepliesTo(1, 1)[1].error_code = "INVALID_JSON"
    /\ IsRequest(rlog[1][2])
    /\ RepliesTo(1, 2) # <<>> /\ RepliesTo(1, 2)[1].success = "true"

\* The last n elements of a sequence.
LastN(q, n) == IF Len(q) <= n THEN q ELSE SubSeq(q, Len(q) - n + 1, Len(q))

\* C5: a connection's search history holds at most 50 entries, those of the
\* most recent search_cars requests in arrival order: the oldest entry is
\* evicted first.
C5_HistoryBounded ==
    \A c \in Conns :
        /\ Len(search_history[c]) <= 50
        /\ [i \in 1..Len(search_history[c]) |-> search_history[c][i].timestamp]
             = LastN(SelectSeq(RequestIndexes(c),
                        LAMBDA k : Handled(c, k) /\ rlog[c][k].action = "search_cars"), 50)

\* C5 witness: after 52 searches the history holds the entries of searches 3..52.
C5_Witness ==
    /\ Len(rlog[1]) = 52
    /\ pc[1] = "idle"
    /\ Len(search_history[1]) = 50
    /\ search_history[1][1].timestamp = 3
    /\ search_history[1][50].timestamp = 52

\* C6: only search_cars feeds the history.  A step changes the history of a
\* connection only when it completes an mcp_request whose action is
\* search_cars, and completing a search_cars request that reached the handler
\* appends exactly one entry.
C6_OnlySearchFeedsHistory ==
    [][\A c \in Conns :
          /\ search_history'[c] # search_history[c] =>
                /\ pc[c] = "await_handler" /\ pc'[c] = "idle"
                /\ IsRequest(cur[c]) /\ cur[c].action = "search_cars"
          /\ (pc[c] = "await_handler" /\ pc'[c] = "idle"
                /\ HandlerRuns(cur[c]) /\ cur[c].action = "search_cars") =>
                /\ Len(search_history'[c]) = Len(search_history[c]) + 1
                /\ SubSeq(search_history'[c], 1, Len(search_history[c])) = search_history[c]
      ]_vars

\* C6 witness: a get_brands request and a malformed frame were answered
\* without touching the history, and one search appended one entry.
C6_Witness ==
    /\ Len(rlog[1]) = 2
    /\ pc[1] = "idle"
    /\ IsRequest(rlog[1][1]) /\ rlog[1][1].action = "get_brands"
    /\ IsRequest(rlog[1][2]) /\ rlog[1][2].action = "search_cars" /\ rlog[1][2].valid
    /\ Len(search_history[1]) = 1
    /\ search_history[1][1].timestamp = 2

(***************************************************************************)
(* The normalizer alone: one call of either conversion path on one input.  *)
(***************************************************************************)
NormalizeRaw ==
    /\ npc = "call"
    /\ path = "raw"
    /\ filters' = _normalize_llm_filters(raw_filters)
    /\ npc' = "done"
    /\ UNCHANGED <<path, raw_filters, preferences>>
    /\ UNCHANGED <<gwVars, agentVars, callVars>>

ConvertPreferences ==
    /\ npc = "call"
    /\ path = "prefs"
    /\ filters' = _convert_preferences_to_filters(preferences)
    /\ npc' = "done"
    /\ UNCHANGED <<path, raw_filters, preferences>>
    /\ UNCHANGED <<gwVars, agentVars, callVars>>

InitNorm ==
    /\ GatewayInit({1}, NoIdentity)
    /\ AgentIdle
    /\ CallsIdle
    /\ npc = "call"
    /\ filters = <<>>
    /\ path \in {"raw", "prefs"}
    /\ IF path = "raw"
       THEN /\ preferences = <<>>
            /\ \/ \E s \in SubjectItems, b \in SiblingItems \cup {NoItem}, b_first \in BOOLEAN :
                     /\ b # NoItem => b[1] # s[1]
                     /\ raw_filters \in {RawPayload(s, b, b_first)} \cup NonDictPayloads
               \/ \E k1 \in CanonicalKeys, k2 \in CanonicalKeys :
                     \E v1 \in CanonicalValues, v2 \in CanonicalValues :
                        raw_filters = CanonicalPayload(k1, v1, k2, v2)
       ELSE raw_filters = Null /\ preferences \in PreferenceMaps

NextNorm == NormalizeRaw \/ ConvertPreferences

SpecNorm == InitNorm /\ [][NextNorm]_vars

\* The items of the raw payload the normalizer was called with.
RawItems == IF raw_filters.t = "dict" THEN raw_filters.items ELSE <<>>

NormalizedRaw == npc = "done" /\ path = "raw"

\* C7: both conversion paths return a flat map whose keys all belong to the
\* canonical filter vocabulary and whose values are never null or nested.
C7_CanonicalFlatOutput ==
    (npc = "done" /\ path \in {"raw", "prefs"}) =>
        \A i \in DOMAIN filters :
            /\ filters[i][1] \in CanonicalKeys
            /\ filters[i][2].t \notin {"null", "dict"}

LowerMarkers == <<"$gte", "gte", "min">>

UpperMarkers == <<"$lte", "lte", "max">>

\* The bound a wrapper carries: its first non-null marker, in the order given.
Carried(d, markers) ==
    IF \E i \in DOMAIN markers : dict_get(d, markers[i], Null) # Null
    THEN LET i == CHOOSE j \in DOMAIN markers :
                    /\ dict_get(d, markers[j], Null) # Null
                    /\ \A h \in 1..(j - 1) : dict_get(d, markers[h], Null) = Null
         IN  dict_get(d, markers[i], Null)
    ELSE Null

RangeMarkers == {"$gte", "gte", "min", "$lte", "lte", "max"}

IsRangeWrapper(v) ==
    /\ v.t = "dict"
    /\ v.items # <<>>
    /\ dict_keys(v.items) \subseteq RangeMarkers

\* C8: when price is a range-operator wrapper that carries both bounds, the
\* output has price_min and price_max equal to those bounds and no price key.
C8_PriceRangeBothBounds ==
    LET w == dict_get(RawItems, "price", Null)
    IN  ( /\ NormalizedRaw
          /\ IsRangeWrapper(w)
          /\ Carried(w.items, LowerMarkers) # Null
          /\ Carried(w.items, UpperMarkers) # Null )
        => /\ dict_get(filters, "price_min", Null) = Carried(w.items, LowerMarkers)
           /\ dict_get(filters, "price_max", Null) = Carried(w.items, UpperMarkers)
           /\ ~dict_has(filters, "price")

\* The payload items that give doors (or portas) a plain value.
DoorsEntries ==
    {i \in DOMAIN RawItems :
        RawItems[i][1] \in {"doors", "portas"} /\ RawItems[i][2].t # "dict"}

DoorsDuplicated(N) ==
    /\ dict_get(filters, "doors_min", Null) = Num(py_int(N).n)
    /\ dict_get(filters, "doors_max", Null) = Num(py_int(N).n)
    /\ ~dict_has(filters, "doors")

\* C9 as stated: doors: N (or portas: N) with N integer-parsable gives
\* doors_min = doors_max = N and no doors key, whatever other keys the payload
\* holds; a value that is not integer-parsable emits no doors key of any kind.
C9_DoorsDuplicated ==
    NormalizedRaw =>
        \A i \in DoorsEntries :
            IF py_int(RawItems[i][2]).ok
            THEN DoorsDuplicated(RawItems[i][2])
            ELSE /\ ~dict_has(filters, "doors")
                 /\ \A k \in {"doors_min", "doors_max"} :
                        dict_has(filters, k) => dict_has(RawItems, k)

\* The output keys an item under the payload key k can write.
Writes(k) ==
    LET key == key_synonyms(k)
    IN  (IF key = "doors" THEN {} ELSE {key})
        \cup (IF key \in RangeKeys THEN {key \o "_min", key \o "_max"} ELSE {})
        \cup (IF key \in {"year", "ano"}
              THEN {"year_manufacture_min", "year_manufacture_max",
                    "year_model_min", "year_model_max"}
              ELSE {})

\* No item of the payload other than item i can write one of the keys.
Alone(i, keys) ==
    \A j \in DOMAIN RawItems : j # i => Writes(RawItems[j][1]) \cap keys = {}

\* C9 as amended: the same, for payloads in which no other key can write
\* doors_min or doors_max.
C9_DoorsDuplicatedAlone ==
    NormalizedRaw =>
        \A i \in DoorsEntries :
            Alone(i, {"doors", "doors_min", "doors_max"}) =>
                IF py_int(RawItems[i][2]).ok
                THEN DoorsDuplicated(RawItems[i][2])
                ELSE \A k \in {"doors", "doors_min", "doors_max"} : ~dict_has(filters, k)

C9_Witness ==
    /\ NormalizedRaw
    /\ raw_filters = Dict(<< <<"foo", Str("abc")>>, <<"portas", Str("4")>> >>)
    /\ filters = << <<"foo", Str("abc")>>, <<"doors_min", Num(4)>>, <<"doors_max", Num(4)>> >>

\* A nested value of two or more keys, none an equality or range marker.
UnrecognizedStructure(v) ==
    /\ v.t = "dict"
    /\ Len(v.items) >= 2
    /\ \A i \in DOMAIN EqualityMarkers : ~dict_has(v.items, EqualityMarkers[i])
    /\ dict_keys(v.items) \cap RangeMarkers = {}

KnownAttribute(k) == key_synonyms(k) \in RangeKeys \cup CanonicalKeys

AttributeForms(k) ==
    {key_synonyms(k), key_synonyms(k) \o "_min", key_synonyms(k) \o "_max"}

\* C10 as stated: a known attribute holding an unrecognized structure of two
\* or more keys is absent from the output, with its _min/_max forms.
C10_StructureDropped ==
    NormalizedRaw =>
        \A i \in DOMAIN RawItems :
            (KnownAttribute(RawItems[i][1]) /\ UnrecognizedStructure(RawItems[i][2]))
            => \A k \in AttributeForms(RawItems[i][1]) : ~dict_has(filters, k)

\* C10 as amended: the same, unless another key of the payload supplies the
\* attribute or one of its _min/_max forms.
C10_StructureDroppedAlone ==
    NormalizedRaw =>
        \A i \in DOMAIN RawItems :
            ( /\ KnownAttribute(RawItems[i][1])
              /\ UnrecognizedStructure(RawItems[i][2])
              /\ Alone(i, AttributeForms(RawItems[i][1])) )
            => \A k \in AttributeForms(RawItems[i][1]) : ~dict_has(filters, k)

C10_Witness ==
    /\ NormalizedRaw
    /\ raw_filters = Dict(<< <<"marca", Dict(<< <<"x", Num(8)>>, <<"y", Num(9)>> >>)>>,
                             <<"doors", Num(2)>> >>)
    /\ filters = << <<"doors_min", Num(2)>>, <<"doors_max", Num(2)>> >>

\* Two dicts with the same keys and the same value under each.
SameDict(d, e) ==
    /\ dict_keys(d) = dict_keys(e)
    /\ \A k \in dict_keys(d) : dict_get(d, k, Null) = dict_get(e, k, Null)

\* A flat map of canonical keys holding non-null scalars.
IsCanonicalSet(items) ==
    \A i \in DOMAIN items :
        /\ items[i][1] \in CanonicalKeys
        /\ items[i][2].t \in {"int", "float", "str"}

\* C11 as stated: _normalize_llm_filters is the identity on every flat map of
\* canonical keys with non-null scalar values.
C11_IdentityOnCanonical ==
    (NormalizedRaw /\ raw_filters.t = "dict" /\ IsCanonicalSet(RawItems))
        => SameDict(filters, RawItems)

\* C11 as amended: the identity on every flat map of canonical keys whose
\* values are non-null scalars other than the empty string.
C11_IdentityOnNonEmptyCanonical ==
    ( /\ NormalizedRaw
      /\ raw_filters.t = "dict"
      /\ IsCanonicalSet(RawItems)
      /\ \A i \in DOMAIN RawItems : RawItems[i][2] # Str("") )
        => SameDict(filters, RawItems)

C11_Witness ==
    /\ NormalizedRaw
    /\ raw_filters = Dict(<< <<"price_max", Num(0)>>, <<"search", Str("abc")>> >>)
    /\ filters = << <<"price_max", Num(0)>>, <<"search", Str("abc")>> >>

(***************************************************************************)
(* The conversational agent (run_car_agent.Command) and the text backend   *)
(* behind it (LLMInterface, OllamaClient).                                 *)
(***************************************************************************)
\* json.loads("1e999"): a float for isinstance, true, and not convertible by int().
Infinity == [t |-> "inf"]

\* What one call of generate_response gives back: a text that holds a JSON
\* object, a text whose braces do not parse, a text without braces, or an
\* exception of the provider.
JsonAnswer(body) == [k |-> "json", body |-> body]

GarbageAnswer == [k |-> "garbage"]

TextAnswer(s) == [k |-> "text", s |-> s]

RaiseAnswer(s) == [k |-> "raise", s |-> s]

\* The texts OllamaClient.generate_response returns in place of an answer.
TimeoutText == "A resposta esta demorando muito. Tente novamente ou simplifique sua busca."

ConnectionErrorText == "Erro de conexao com o servidor Ollama. Verifique se esta rodando."

BackendFailureTexts == {TimeoutText, ConnectionErrorText}

\* OllamaClient.generate_response: a timeout or a connection error becomes
\* the returned text; otherwise the model's answer is returned.
generate_response(failure, answer) ==
    CASE failure = "timeout" -> TextAnswer(TimeoutText)
      [] failure = "connection" -> TextAnswer(ConnectionErrorText)
      [] OTHER -> answer

\* The text of an answer, as the caller reads it.
answer_text(answer) ==
    CASE answer.k = "text" -> answer.s
      [] answer.k = "json" -> "json"
      [] OTHER -> "{"

\* _extract_json_from_response: the fenced or braced part of the text, if any.
_extract_json_from_response(answer) ==
    IF answer.k \in {"json", "garbage"} THEN answer ELSE [k |-> "none"]

PreferenceKeys == {"marca", "modelo", "faixa_preco", "ano", "combustivel",
                   "transmissao", "cor", "portas", "quilometragem", "uso"}

\* Variant: a null value of a known key is kept.
_validate_preferences_keep_null(prefs) ==
    SelectSeq(prefs, LAMBDA item : item[1] \in PreferenceKeys)

_validate_preferences(prefs) ==
    SelectSeq(prefs, LAMBDA item : item[1] \in PreferenceKeys /\ item[2] # Null)

\* LLMInterface.extract_car_preferences: the validated map of the JSON object
\* in the answer; the empty map for anything else.
extract_car_preferences(answer) ==
    IF answer.k = "raise" THEN <<>>
    ELSE IF _extract_json_from_response(answer).k = "json"
    THEN _validate_preferences(answer.body.items)
    ELSE <<>>

\* int() of an infinite float raises OverflowError.
OverflowText == "cannot convert float infinity to integer"

convert_overflows(prefs) ==
    \E k \in {"quilometragem", "portas"} : dict_get(prefs, k, Null) = Infinity

Returned(value) == [raised |-> FALSE, value |-> value, error |-> None]

Raised(error) == [raised |-> TRUE, value |-> <<>>, error |-> error]

\* LLMInterface.generate_car_search_filters: the normalized JSON object of the
\* answer, or the preference-map conversion when there is none.
generate_car_search_filters(answer, prefs) ==
    IF answer.k # "raise" /\ _extract_json_from_response(answer).k = "json"
    THEN Returned(_normalize_llm_filters(answer.body))
    ELSE IF convert_overflows(prefs)
    THEN Raised(OverflowText)
    ELSE Returned(_convert_preferences_to_filters(prefs))

ReadyText == "Perfeito! Tenho informacoes suficientes para buscar carros para voce."

\* "x in missing_info"
is_missing(missing_info, x) == \E i \in DOMAIN missing_info : missing_info[i] = x

_generate_simple_question(missing_info) ==
    CASE is_missing(missing_info, "marca") -> "Qual marca de carro voce prefere?"
      [] is_missing(missing_info, "faixa_preco") -> "Qual sua faixa de preco?"
      [] is_missing(missing_info, "ano") -> "Que ano de carro voce procura?"
      [] is_missing(missing_info, "combustivel") -> "Qual tipo de combustivel prefere?"
      [] is_missing(missing_info, "transmissao") -> "Prefere cambio manual ou automatico?"
      [] is_missing(missing_info, "cor") -> "Tem alguma cor preferida?"
      [] is_missing(missing_info, "portas") -> "Quantas portas prefere?"
      [] is_missing(missing_info, "quilometragem") -> "Qual a quilometragem maxima que aceita?"
      [] OTHER -> "Que outras caracteristicas sao importantes para voce?"

\* LLMInterface.generate_next_question.
generate_next_question(answer, missing_info) ==
    IF missing_info = <<>> THEN ReadyText
    ELSE IF answer.k = "raise" THEN _generate_simple_question(missing_info)
    ELSE answer_text(answer)

\* dict.update
RECURSIVE dict_update(_, _)
dict_update(d, e) ==
    IF e = <<>> THEN d
    ELSE dict_update(dict_set(d, Head(e)[1], Head(e)[2]), Tail(e))

\* Command._has_sufficient_info: any(prefs.values())
_has_sufficient_info(prefs) == \E i \in DOMAIN prefs : truthy(prefs[i][2])

\* Command._get_missing_info
_get_missing_info(prefs) ==
    (IF ~truthy(dict_get(prefs, "marca", Null)) /\ ~truthy(dict_get(prefs, "modelo", Null))
     THEN <<"marca">> ELSE <<>>)
    \o (IF ~truthy(dict_get(prefs, "faixa_preco", Null)) THEN <<"faixa_preco">> ELSE <<>>)
    \o (IF ~truthy(dict_get(prefs, "ano", Null)) THEN <<"ano">> ELSE <<>>)

NoResultsText == "Nao encontrei carros que atendam aos seus criterios. Que tal ajustarmos a busca?"

ApologyText == "Desculpe, houve um erro ao processar sua solicitacao: "

\* Command._search_cars: the page the catalog handler found, or the empty
\* result when validation or the handler fails; nothing propagates.
Found(page) == [ok |-> TRUE, page |-> page]

SearchFailed == [ok |-> FALSE, page |-> <<>>]

_search_cars(outcome) ==
    IF outcome.ok
    THEN [results |-> outcome.page, total |-> Len(outcome.page)]
    ELSE [results |-> <<>>, total |-> 0]

\* LLMInterface.format_car_results for a non-empty page.
format_car_results(cars) == <<"Encontrei carro(s) que atendem aos seus criterios:">> \o cars

\* A provider registered through LLMFactory.register_provider may override
\* the four operations the turn calls; such an override may raise.
ProviderErrorText == "provider failure"

\* The call of the provider that raises in a turn, if any.
Faults == {"none", "extract", "filters", "format", "question"}

\* Variant: a page already held is kept.
save_results_keep_page(state, filters0, search_results, user_input) ==
    [state EXCEPT
       !.search_history = Append(@, [filters |-> filters0, results |-> search_results,
                                     user_input |-> user_input]),
       !.current_results = IF @ = <<>> THEN search_results.results ELSE @]

\* Lines 267-271: the history entry and the page of the turn.
save_results(state, filters0, search_results, user_input) ==
    [state EXCEPT
       !.search_history = Append(@, [filters |-> filters0, results |-> search_results,
                                     user_input |-> user_input]),
       !.current_results = search_results.results]

\* What Command._process_user_input does from the extracted map on:
\* lines 244-282.
after_extraction(state, user_input, extracted, fault, second, outcome) ==
    LET prefs == dict_update(state.preferences, extracted)
        merged == [state EXCEPT !.preferences = prefs]
        base == [state |-> merged, extracted |-> extracted, error |-> None,
                 searched |-> FALSE, presented |-> FALSE, asked |-> FALSE,
                 filters |-> <<>>, results |-> <<>>, reply |-> <<>>]
    IN  IF _has_sufficient_info(prefs)
        THEN LET gen == IF fault = "filters" THEN Raised(ProviderErrorText)
                        ELSE generate_car_search_filters(second, prefs)
                 search_results == _search_cars(outcome)
             IN  IF gen.raised
                 THEN [base EXCEPT !.error = gen.error]
                 ELSE IF search_results.results = <<>>
                 THEN [base EXCEPT !.searched = TRUE, !.filters = gen.value,
                                   !.reply = <<NoResultsText>>]
                 ELSE IF fault = "format"
                 THEN [base EXCEPT !.searched = TRUE, !.filters = gen.value,
                                   !.error = ProviderErrorText]
                 ELSE [base EXCEPT
                         !.state = save_results(merged, gen.value, search_results,
                                                user_input),
                         !.searched = TRUE, !.presented = TRUE,
                         !.filters = gen.value,
                         !.results = search_results.results,
                         !.reply = format_car_results(search_results.results)]
        ELSE IF fault = "question"
        THEN [base EXCEPT !.error = ProviderErrorText]
        ELSE [base EXCEPT !.asked = TRUE,
                          !.reply = <<generate_next_question(second,
                                          _get_missing_info(prefs))>>]

\* Variant: the exception leaves the turn.
turn_boundary_propagates(done) ==
    IF done.error # None
    THEN [done EXCEPT !.reply = <<>>, !.propagated = TRUE]
    ELSE done

\* The except clause of Command._process_user_input (lines 284-286).
turn_boundary(done) ==
    IF done.error # None
    THEN [done EXCEPT !.reply = <<ApologyText, done.error>>]
    ELSE done

\* Command._process_user_input
_process_user_input(state, user_input, fault, first, second, outcome) ==
    LET attempt ==
          IF fault = "extract"
          THEN [state |-> state, extracted |-> <<>>, error |-> ProviderErrorText,
                searched |-> FALSE, presented |-> FALSE, asked |-> FALSE,
                filters |-> <<>>, results |-> <<>>, reply |-> <<>>]
          ELSE after_extraction(state, user_input, extract_car_preferences(first),
                                fault, second, outcome)
    IN  turn_boundary([propagated |-> FALSE] @@ attempt)

ExitWords == {"sair", "exit", "quit", "bye"}

UserInputs == {"quero um Audi", "sair"}

\* JSON objects the extraction prompt may be answered with.
PreferencePayloads ==
    { Dict(<< <<"marca", Str("Audi")>>, <<"modelo", Null>>, <<"foo", Str("x")>> >>),
      Dict(<< <<"ano", Num(4)>>, <<"marca", Null>> >>),
      Dict(<< <<"quilometragem", Num(0)>>, <<"cor", Str("")>> >>),
      Dict(<< <<"marca", Str("BMW")>>, <<"quilometragem", Infinity>> >>),
      Dict(<< <<"marca", Str("")>> >>) }

FilterPayload == Dict(<< <<"brand_name", Str("Audi")>>, <<"price_min", Null>> >>)

BackendErrorText == "backend unavailable"

NoAnswer == TextAnswer("")

\* A backend call: how the request ends and what the model answered.
FirstCalls ==
    {<<"none", JsonAnswer(p)>> : p \in PreferencePayloads}
    \cup {<<"none", GarbageAnswer>>, <<"none", RaiseAnswer(BackendErrorText)>>,
          <<"connection", NoAnswer>>}

FilterCalls ==
    {<<"none", JsonAnswer(FilterPayload)>>,
     <<"none", RaiseAnswer(BackendErrorText)>>, <<"connection", NoAnswer>>}

QuestionCalls ==
    {<<"none", TextAnswer("Qual marca voce prefere?")>>,
     <<"none", RaiseAnswer(BackendErrorText)>>,
     <<"timeout", NoAnswer>>, <<"connection", NoAnswer>>}

\* No second call, no search: the turn failed before them.
NoCall == <<"none", NoAnswer>>

Pages == {<<>>, <<"car1">>, <<"car2", "car3">>}

SearchOutcomes == {Found(page) : page \in Pages} \cup {SearchFailed}

\* One pass of the input loop that reaches _process_user_input.
AgentTurnWith(user_input, fault, first, second, outcome) ==
    LET done == _process_user_input(conversation_state, user_input, fault,
                    generate_response(first[1], first[2]),
                    generate_response(second[1], second[2]), outcome)
    IN  /\ conversation_state' = done.state
        /\ session' = IF done.propagated /\ mode = "piped" THEN "ended" ELSE session
        /\ last' = [event |-> "turn", before |-> conversation_state,
                    user_input |-> user_input, fault |-> fault,
                    first |-> first, second |-> second,
                    outcome |-> outcome, done |-> done]

\* The inputs of one turn: the answer to the extraction call, then either the
\* answer to the filter call and the outcome of the search, or the answer to
\* the question call.
AgentTurn ==
    /\ session = "running"
    /\ nturns < MaxTurns
    /\ \E user_input \in UserInputs, first \in FirstCalls :
          /\ mode = "interactive" => user_input \notin ExitWords
          /\ LET prefs == dict_update(conversation_state.preferences,
                              extract_car_preferences(generate_response(first[1], first[2])))
             IN  IF _has_sufficient_info(prefs)
                 THEN \E second \in FilterCalls, outcome \in SearchOutcomes :
                         AgentTurnWith(user_input, "none", first, second, outcome)
                 ELSE \E second \in QuestionCalls :
                         AgentTurnWith(user_input, "none", first, second, SearchFailed)
    /\ nturns' = nturns + 1
    /\ UNCHANGED <<mode, gwVars, normVars, callVars>>

\* A turn in which a call of the provider raises: the extraction, or, after
\* the merge, the call the turn reaches next.
AgentTurnFault ==
    /\ session = "running"
    /\ nturns < MaxTurns
    /\ \E user_input \in UserInputs, first \in FirstCalls, fault \in Faults \ {"none"} :
          /\ mode = "interactive" => user_input \notin ExitWords
          /\ LET prefs == dict_update(conversation_state.preferences,
                              extract_car_preferences(generate_response(first[1], first[2])))
             IN  CASE fault = "extract" ->
                        first = <<"connection", NoAnswer>>
                        /\ AgentTurnWith(user_input, fault, NoCall, NoCall, SearchFailed)
                   [] fault = "filters" ->
                        _has_sufficient_info(prefs)
                        /\ AgentTurnWith(user_input, fault, first, NoCall, SearchFailed)
                   [] fault = "format" ->
                        _has_sufficient_info(prefs)
                        /\ AgentTurnWith(user_input, fault, first,
                                         <<"none", JsonAnswer(FilterPayload)>>,
                                         Found(<<"car1">>))
                   [] OTHER ->
                        ~_has_sufficient_info(prefs)
                        /\ AgentTurnWith(user_input, fault, first, NoCall, SearchFailed)
    /\ nturns' = nturns + 1
    /\ UNCHANGED <<mode, gwVars, normVars, callVars>>

\* _process_interactive_input: an exit word ends the loop.
AgentExit ==
    /\ session = "running"
    /\ mode = "interactive"
    /\ \E user_input \in UserInputs \cap ExitWords :
          last' = [event |-> "exit", user_input |-> user_input]
    /\ session' = "ended"
    /\ UNCHANGED <<conversation_state, mode, nturns, gwVars, normVars, callVars>>

\* KeyboardInterrupt: caught by the interactive loop, which breaks; not an
\* Exception, so it leaves the piped loop as well.
AgentInterrupt ==
    /\ session = "running"
    /\ session' = "ended"
    /\ last' = [event |-> "interrupt"]
    /\ UNCHANGED <<conversation_state, mode, nturns, gwVars, normVars, callVars>>

\* End of the input stream: the piped loop is over; the interactive prompt
\* raises EOFError, which the loop's except clause swallows.
AgentEndOfInput ==
    /\ session = "running"
    /\ last.event # "eof"
    /\ session' = IF mode = "piped" THEN "ended" ELSE session
    /\ last' = [event |-> "eof"]
    /\ UNCHANGED <<conversation_state, mode, nturns, gwVars, normVars, callVars>>

InitAgent ==
    /\ GatewayInit({1}, NoIdentity)
    /\ NormIdle
    /\ CallsIdle
    /\ conversation_state = NewConversation
    /\ session = "running"
    /\ mode \in {"interactive", "piped"}
    /\ nturns = 0
    /\ last = NoTurn

NextAgent == AgentTurn \/ AgentTurnFault \/ AgentExit \/ AgentInterrupt \/ AgentEndOfInput

SpecAgent == InitAgent /\ [][NextAgent]_vars

(***************************************************************************)
(* Claims about the conversational agent.                                  *)
(***************************************************************************)
\* The last event of the input loop was a turn.
TurnDone == last.event = "turn"

\* The last turn ran to its end without an exception.
TurnCompleted == TurnDone /\ last.done.error = None

\* At least one key of the map has a non-null value.
HasNonNullValue(prefs) == \E i \in DOMAIN prefs : prefs[i][2] # Null

\* C12: after the merge of a turn, the agent searches if and only if at least
\* one key of the accumulated preference map has a non-null value; otherwise
\* it does not search and asks a clarifying question.
C12_SearchIffNonNull ==
    TurnCompleted =>
        /\ last.done.searched <=> HasNonNullValue(last.done.state.preferences)
        /\ ~HasNonNullValue(last.done.state.preferences) =>
              ~last.done.searched /\ last.done.asked

\* The JSON object the extraction call of the last turn answered with, if any.
ExtractedObject ==
    LET answer == generate_response(last.first[1], last.first[2])
    IN  IF last.fault # "extract" /\ answer.k = "json"
        THEN SelectSeq(answer.body.items, LAMBDA item : item[1] \in PreferenceKeys)
        ELSE <<>>

\* C13: after each turn the preference map equals the map before the turn
\* overridden by the non-null values extracted in the turn; a key the turn
\* does not mention, or extracts as null, keeps its value; no key is removed.
C13_MergeOverridesNonNull ==
    TurnDone =>
        LET before == last.before.preferences
            after == conversation_state.preferences
        IN  /\ \A k \in PreferenceKeys :
                 dict_get(after, k, Null) =
                    IF dict_get(ExtractedObject, k, Null) # Null
                    THEN dict_get(ExtractedObject, k, Null)
                    ELSE dict_get(before, k, Null)
            /\ dict_keys(before) \subseteq dict_keys(after)
            /\ dict_keys(after) \subseteq PreferenceKeys
            /\ \A i \in DOMAIN after : after[i][2] # Null

\* A turn that extracts a null marca and a year leaves the marca of the
\* earlier turn in place and adds the year.
C13_Witness ==
    /\ TurnDone
    /\ dict_get(last.before.preferences, "marca", Null) = Str("Audi")
    /\ dict_has(ExtractedObject, "marca")
    /\ dict_get(ExtractedObject, "marca", Null) = Null
    /\ dict_get(conversation_state.preferences, "marca", Null) = Str("Audi")
    /\ dict_get(conversation_state.preferences, "ano", Null) = Num(4)

\* A long conversation: every turn extracts the same preference and the
\* search either finds one car or none.
AgentHistoryTurn ==
    /\ session = "running"
    /\ nturns < MaxHistTurns
    /\ \E found \in BOOLEAN :
          AgentTurnWith("quero um Audi", "none",
              <<"none", JsonAnswer(Dict(<< <<"marca", Str("Audi")>> >>))>>,
              <<"none", JsonAnswer(FilterPayload)>>,
              IF found THEN Found(<<"car1">>) ELSE Found(<<>>))
    /\ nturns' = nturns + 1
    /\ UNCHANGED <<mode, gwVars, normVars, callVars>>

NextAgentHistory == AgentHistoryTurn

SpecAgentHistory == InitAgent /\ [][NextAgentHistory]_vars

\* C14: the search history of the agent never holds more than 50 entries.
C14_AgentHistoryBounded == Len(conversation_state.search_history) <= 50

\* The last turn executed a search, and the result list the search returned.
SearchExecuted == TurnDone /\ last.done.searched

\* The last turn presented the results of its search.
SearchPresented == SearchExecuted /\ last.done.presented

SearchResultList == _search_cars(last.outcome).results

\* C15 (as stated): at the end of a turn current_results is the result list of
\* the latest search the agent executed, never the page of an earlier search.
C15_LatestSearchRetained ==
    SearchExecuted /\ TurnCompleted =>
        conversation_state.current_results = SearchResultList

\* C15 (amended): at the end of a turn current_results is the result list of
\* the latest search whose results were presented; a search that finds
\* nothing, and a turn that executes no search, leave it as it was.
C15_LatestPresentedRetained ==
    TurnDone =>
        conversation_state.current_results =
            IF SearchPresented
            THEN SearchResultList
            ELSE last.before.current_results

\* A search that finds a page replaces the different page of an earlier search.
C15_Witness ==
    /\ SearchPresented
    /\ last.before.current_results # <<>>
    /\ SearchResultList # <<>>
    /\ SearchResultList # last.before.current_results
    /\ conversation_state.current_results = SearchResultList

\* The last turn raised an exception.
TurnFailed == TurnDone /\ last.done.error # None

C17_ReplyHidesException ==
    TurnFailed =>
        /\ last.done.reply # <<>>
        /\ Head(last.done.reply) = ApologyText
        /\ \A i \in DOMAIN last.done.reply : last.done.reply[i] # last.done.error

\* The backend was unavailable, or timed out, for the second call of the turn.
SecondCallFailed == last.second[1] \in {"timeout", "connection"}

\* C18: when the backend is unavailable or times out during a turn, the
\* failure is not the turn's outcome: the reply is never the failure text of
\* the backend, and a clarifying question that could not be generated is the
\* fixed fallback question.
C18_BackendFailureFallsBack ==
    TurnDone =>
        /\ \A i \in DOMAIN last.done.reply : last.done.reply[i] \notin BackendFailureTexts
        /\ last.done.asked /\ SecondCallFailed =>
              last.done.reply =
                 <<_generate_simple_question(
                      _get_missing_info(conversation_state.preferences))>>

(***************************************************************************)
(* One call of extract_car_preferences on a provider.                      *)
(***************************************************************************)
\* "interface": a provider that inherits LLMInterface.extract_car_preferences;
\* "simple": SimpleLLM; "ollama": OllamaClient.
Providers == {"interface", "simple", "ollama"}

\* SimpleLLM._generate_preferences_response
SimplePreferences ==
    Dict(<< <<"marca", Str("Audi")>>, <<"modelo", Null>>, <<"faixa_preco", Null>>,
            <<"ano", Null>>, <<"combustivel", Null>>, <<"transmissao", Null>>,
            <<"cor", Null>>, <<"portas", Null>>, <<"quilometragem", Null>>,
            <<"uso", Null>> >>)

\* JSON objects a model may answer the extraction prompt with.
ModelPayloads ==
    PreferencePayloads
    \cup { Dict(<<>>),
           Dict(<< <<"quilometragem", Infinity>> >>),
           Dict(<< <<"foo", Str("x")>>, <<"bar", Num(4)>> >>),
           Dict(<< <<"marca", Null>>, <<"cor", Null>> >>),
           Dict(<< <<"portas", Str("4")>>, <<"uso", Str("abc")>> >>),
           Dict(<< <<"faixa_preco", Str("abc")>>, <<"modelo", Str("")>> >>) }

ModelAnswers ==
    {JsonAnswer(p) : p \in ModelPayloads}
    \cup {GarbageAnswer, TextAnswer("Ola!"), TextAnswer("")}

\* What generate_response of the provider can give back.
ProviderAnswers(provider) ==
    CASE provider = "simple" -> {JsonAnswer(SimplePreferences)}
      [] provider = "ollama" ->
            {generate_response("none", a) : a \in ModelAnswers}
            \cup {generate_response("timeout", NoAnswer),
                  generate_response("connection", NoAnswer)}
      [] OTHER -> ModelAnswers \cup {RaiseAnswer(BackendErrorText)}

TypeErrorText == "extract_car_preferences() takes 2 positional arguments but 3 were given"

\* The parameters the provider's extract_car_preferences accepts after self.
accepts_previous_results(provider) == provider = "interface"

\* provider.extract_car_preferences(user_input) or
\* provider.extract_car_preferences(user_input, previous_results)
call_extract_car_preferences(provider, with_previous_results, answer) ==
    IF with_previous_results /\ ~accepts_previous_results(provider)
    THEN Raised(TypeErrorText)
    ELSE Returned(extract_car_preferences(answer))

ExtractCall ==
    /\ extraction.pc = "call"
    /\ extraction' = [extraction EXCEPT
          !.pc = "done",
          !.result = call_extract_car_preferences(extraction.provider,
                        extraction.with_previous_results, extraction.answer)]
    /\ UNCHANGED <<gwVars, normVars, agentVars, search_call>>

InitExtract ==
    /\ GatewayInit({1}, NoIdentity)
    /\ NormIdle
    /\ AgentIdle
    /\ search_call = NoCallMade
    /\ \E provider \in Providers, with_previous_results \in BOOLEAN :
          \E answer \in ProviderAnswers(provider) :
             extraction = [pc |-> "call", provider |-> provider,
                           with_previous_results |-> with_previous_results,
                           answer |-> answer, result |-> Returned(<<>>)]

NextExtract == ExtractCall

SpecExtract == InitExtract /\ [][NextExtract]_vars

\* The answer holds a JSON object that parses.
HoldsJsonObject(answer) == answer.k = "json"

\* C19: extract_car_preferences never raises to its caller, called with the
\* free text alone or with prior results as well; the map it returns has only
\* whitelisted keys and non-null values, and is empty when the answer holds
\* no JSON object that parses or the backend call fails.
C19_ExtractionNeverRaises ==
    extraction.pc = "done" =>
        /\ ~extraction.result.raised
        /\ \A i \in DOMAIN extraction.result.value :
              /\ extraction.result.value[i][1] \in PreferenceKeys
              /\ extraction.result.value[i][2] # Null
        /\ ~HoldsJsonObject(extraction.answer) => extraction.result.value = <<>>

(***************************************************************************)
(* The catalog search (CarMCPHandler.handle_search_cars).  A text is a     *)
(* sequence of characters, so that a case-insensitive substring match is   *)
(* computed, not assumed.                                                  *)
(***************************************************************************)
\* str.lower, on the letters the catalog and the requests use.
lower(c) ==
    CASE c = "T" -> "t" [] c = "O" -> "o" [] c = "F" -> "f" [] c = "R" -> "r"
      [] c = "E" -> "e" [] c = "V" -> "v" [] c = "A" -> "a" [] c = "S" -> "s"
      [] c = "C" -> "c" [] c = "Y" -> "y" [] c = "K" -> "k" [] c = "Z" -> "z"
      [] c = "X" -> "x" [] c = "B" -> "b"
      [] OTHER -> c

\* The __icontains lookup.
icontains(text, term) ==
    \E i \in 1..(Len(text) - Len(term) + 1) :
       \A j \in 1..Len(term) : lower(text[i + j - 1]) = lower(term[j])

\* A text value of a request.
Text(chars) == [t |-> "text", chars |-> chars]

\* The catalog: Car rows with the related names joined in.
Catalog ==
    { [id |-> "c1", brand_id |-> "b1", brand_name |-> <<"T", "o">>,
       car_name |-> <<"C", "o">>, car_model_name |-> <<"X", "e">>,
       color_name |-> <<"R", "e">>, engine_name |-> <<"V", "a">>,
       price |-> 2, created_at |-> 1],
      [id |-> "c2", brand_id |-> "b1", brand_name |-> <<"T", "o">>,
       car_name |-> <<"Y", "a">>, car_model_name |-> <<"S", "e">>,
       color_name |-> <<"B", "o">>, engine_name |-> <<"V", "a">>,
       price |-> 4, created_at |-> 2],
      [id |-> "c3", brand_id |-> "b2", brand_name |-> <<"F", "o">>,
       car_name |-> <<"K", "a">>, car_model_name |-> <<"S", "e">>,
       color_name |-> <<"R", "e">>, engine_name |-> <<"Z", "e">>,
       price |-> 6, created_at |-> 3] }

\* filter_mappings: the exact lookups and the icontains lookups.
IdFilters == {"brand_id"}

NameFilters == {"brand_name", "color_name"}

\* range_filters
RangeFilters == {"price"}

\* search_fields
SearchFields == {"car_name", "brand_name", "car_model_name", "color_name", "engine_name"}

\* The columns of the rows above that order_by can resolve.
OrderableFields == {"created_at", "price"}

\* CarMCPHandler._apply_filters
_apply_filters(queryset, request) ==
    LET simple == {car \in queryset :
                     /\ \A k \in IdFilters : request[k] # None => car[k] = request[k]
                     /\ \A k \in NameFilters :
                           request[k] # Null => icontains(car[k], request[k].chars)}
        ranged == {car \in simple :
                     /\ request.price_min # Null => car.price >= request.price_min.n
                     /\ request.price_max # Null => car.price <= request.price_max.n}
    IN  IF request.search # Null
        THEN {car \in ranged :
                \E f \in SearchFields : icontains(car[f], request.search.chars)}
        ELSE ranged

\* The field and the direction an ordering value names.
ordering_field(ordering) ==
    CASE ordering = "-created_at" -> "created_at"
      [] ordering = "-price" -> "price"
      [] OTHER -> ordering

ordering_descending(ordering) == ordering \in {"-created_at", "-price"}

\* QuerySet.order_by followed by list(): the rows in the order asked for.
order_by(queryset, ordering) ==
    LET f == ordering_field(ordering)
        n == Cardinality(queryset)
    IN  CHOOSE rows \in [1..n -> queryset] :
           \A i, j \in 1..n :
              i < j => IF ordering_descending(ordering)
                       THEN rows[i][f] > rows[j][f]
                       ELSE rows[i][f] < rows[j][f]

\* queryset[start:end]
slice(rows, start, end) ==
    IF start >= Len(rows) THEN <<>>
    ELSE SubSeq(rows, start + 1, IF end < Len(rows) THEN end ELSE Len(rows))

\* A reply whose total is taken from the page, after slicing.
SearchReply_total_of_page(total, rows, page, page_size) ==
    [success |-> TRUE, error_code |-> None, total |-> Len(rows),
     results |-> [i \in DOMAIN rows |-> rows[i].id],
     page |-> page, page_size |-> page_size,
     total_pages |-> (Len(rows) + page_size - 1) \div page_size]

\* The success reply: create_mcp_response(success=True, data=response_data).
SearchReply(total, rows, page, page_size) ==
    [success |-> TRUE, error_code |-> None, total |-> total,
     results |-> [i \in DOMAIN rows |-> rows[i].id],
     page |-> page, page_size |-> page_size,
     total_pages |-> (total + page_size - 1) \div page_size]

SearchError ==
    [success |-> FALSE, error_code |-> "SEARCH_ERROR", total |-> 0, results |-> <<>>,
     page |-> 0, page_size |-> 0, total_pages |-> 0]

\* The value handed to order_by: the caller's ordering as it is, "-created_at"
\* when none is supplied.
applied_ordering(request) ==
    IF request.ordering = None THEN "-created_at" ELSE request.ordering

\* CarMCPHandler.handle_search_cars on validated data.  An ordering that is
\* absent is "-created_at"; one that names no field makes order_by raise.
handle_search_cars(request) ==
    LET queryset == _apply_filters(Catalog, request)
        total == Cardinality(queryset)
        ordering == applied_ordering(request)
        start == (request.page - 1) * request.page_size
    IN  IF ordering_field(ordering) \notin OrderableFields
        THEN SearchError
        ELSE SearchReply(total,
                         slice(order_by(queryset, ordering), start,
                               start + request.page_size),
                         request.page, request.page_size)

\* Requests: every filter is absent or a value of the field's type.
BrandIds == {None, "b1", "b9"}

BrandTerms == {Null, Text(<<"t", "o">>), Text(<<"O">>), Text(<<"q">>)}

ColorTerms == {Null, Text(<<"r", "E">>)}

PriceBounds == {Null, Num(2), Num(5)}

SearchTerms == {Null, Text(<<"E">>), Text(<<"v", "a">>), Text(<<"q">>)}

Orderings == {None, "price", "-price", "bogus"}

\* The largest page_size the request serializer accepts.
PageSizeLimit == 100

\* serializer.errors of SearchCarsRequestSerializer: each field is checked on
\* its own (page >= 1, 1 <= page_size <= 100); no check compares two fields.
serializer_errors(request) ==
    {f \in {"page"} : request.page < 1}
       \cup {f \in {"page_size"} :
                request.page_size < 1 \/ request.page_size > PageSizeLimit}

InvalidRequest ==
    [success |-> FALSE, error_code |-> "INVALID_REQUEST", total |-> 0, results |-> <<>>,
     page |-> 0, page_size |-> 0, total_pages |-> 0]

\* The fields of the request body that are filters, and those that page.
FilterFields == {"brand_id", "brand_name", "color_name", "price_min", "price_max", "search"}

PaginationFields == {"page", "page_size", "ordering"}

\* The field is not supplied (or supplied as null).
field_absent(f, v) ==
    CASE f \in {"brand_id", "ordering"} -> v = None
      [] f \in {"page", "page_size"} -> FALSE
      [] OTHER -> v = Null

\* A JSON object over the given fields: each supplied field with its value.
request_object(request, fields) ==
    [f \in fields |-> IF field_absent(f, request[f]) THEN <<>> ELSE <<request[f]>>]

\* request_data.get(name, {}): the object sent under "filters" or
\* "pagination"; the empty object when the fields are sent flat.
nested_object(request, fields) ==
    IF request.layout = "nested" THEN request_object(request, fields)
    ELSE [f \in fields |-> <<>>]

\* MCPCarSocket.create_search_entry with the filters and pagination it reads
\* from the request body.
search_entry(now, request, response) ==
    LET counted == create_search_entry(now,
                       [success |-> IF response.success THEN "true" ELSE "false",
                        total |-> response.total])
    IN  [timestamp |-> counted.timestamp,
         filters |-> nested_object(request, FilterFields),
         pagination |-> nested_object(request, PaginationFields),
         results_count |-> counted.results_count,
         success |-> counted.success]

\* MCPCarSocket._handle_mcp_request for a search_cars frame: handle_request
\* validates the request and, when valid, hands it to handle_search_cars;
\* the reply, whatever it is, gets an entry in the search history.
SearchCall ==
    /\ search_call.pc = "call"
    /\ LET request == search_call.request
           rejected == serializer_errors(request) # {}
           response == IF rejected THEN InvalidRequest ELSE handle_search_cars(request)
       IN  search_call' =
              [search_call EXCEPT
                 !.pc = IF rejected THEN "rejected" ELSE "done",
                 !.ordered_by = IF rejected THEN None ELSE applied_ordering(request),
                 !.response = response,
                 !.history = add_to_search_history(@, search_entry(1, request, response))]
    /\ UNCHANGED <<gwVars, normVars, agentVars, extraction>>

InitSearch ==
    /\ GatewayInit({1}, NoIdentity)
    /\ NormIdle
    /\ AgentIdle
    /\ extraction = NoCallMade
    /\ \E brand_id \in BrandIds, brand_name \in BrandTerms, color_name \in ColorTerms,
          price_min \in PriceBounds, price_max \in PriceBounds, search \in SearchTerms,
          page \in 0..MaxPage, page_size \in 1..MaxPageSize, ordering \in Orderings,
          layout \in {"flat", "nested"} :
          search_call =
             [pc |-> "call",
              request |-> [brand_id |-> brand_id, brand_name |-> brand_name,
                           color_name |-> color_name, price_min |-> price_min,
                           price_max |-> price_max, search |-> search,
                           page |-> page, page_size |-> page_size,
                           ordering |-> ordering, layout |-> layout],
              ordered_by |-> None,
              history |-> <<>>,
              response |-> SearchError]

NextSearch == SearchCall

SpecSearch == InitSearch /\ [][NextSearch]_vars

\* The record satisfies every filter the request supplies.
Satisfies(car, request) ==
    /\ request.brand_id # None => car.brand_id = request.brand_id
    /\ request.brand_name # Null => icontains(car.brand_name, request.brand_name.chars)
    /\ request.color_name # Null => icontains(car.color_name, request.color_name.chars)
    /\ request.price_min # Null => request.price_min.n <= car.price
    /\ request.price_max # Null => car.price <= request.price_max.n
    /\ request.search # Null =>
          \/ icontains(car.car_name, request.search.chars)
          \/ icontains(car.brand_name, request.search.chars)
          \/ icontains(car.car_model_name, request.search.chars)
          \/ icontains(car.color_name, request.search.chars)
          \/ icontains(car.engine_name, request.search.chars)

Matching(request) == {car \in Catalog : Satisfies(car, request)}

\* C20: search_cars with a valid filter set returns success=true with total
\* equal to the number of catalog records that satisfy every supplied filter;
\* when no record matches, the reply is success=true with total 0 and no
\* results.
C20_SearchCountsMatches ==
    search_call.pc = "done" =>
        /\ search_call.response.success
        /\ search_call.response.total = Cardinality(Matching(search_call.request))
        /\ Matching(search_call.request) = {} => search_call.response.results = <<>>


\* The smallest whole number of pages of page_size records that hold total.
ceil_div(total, page_size) ==
    CHOOSE n \in 0..total : /\ n * page_size >= total
                            /\ \A m \in 0..total : m * page_size >= total => n <= m

\* The records left for page (1-indexed) of a set of total records.
page_length(total, page, page_size) ==
    LET rest == total - (page - 1) * page_size
    IN  IF rest <= 0 THEN 0 ELSE IF rest < page_size THEN rest ELSE page_size

\* C21: every successful search_cars reply with page p >= 1 and page_size s
\* carries the size of the whole filtered set as total (counted before
\* slicing), total_pages = ceil(total / s) (0 when total is 0) and exactly
\* min(s, max(0, total - (p-1)*s)) records, so a page past the last one is an
\* empty success page.
C21_PaginationArithmetic ==
    (search_call.pc = "done" /\ search_call.response.success) =>
        LET request == search_call.request
            response == search_call.response
        IN  /\ response.total = Cardinality(Matching(request))
            /\ response.total_pages = ceil_div(response.total, request.page_size)
            /\ response.total = 0 => response.total_pages = 0
            /\ Len(response.results) =
                  page_length(response.total, request.page, request.page_size)

\* A page past the last one of a non-empty filtered set: an empty success page.
C21_Witness ==
    /\ search_call.pc = "done"
    /\ search_call.response.success
    /\ search_call.response.total > 0
    /\ search_call.request.page > search_call.response.total_pages
    /\ search_call.response.results = <<>>


\* The ordering values a caller may ask for: a column of the catalog, with an
\* optional leading "-" for descending.
OrderingAllowList == {"created_at", "-created_at", "price", "-price"}

\* The ids of the matching records, most recently created first.
NewestFirst(request) ==
    LET n == Cardinality(Matching(request))
        rows == CHOOSE r \in [1..n -> Matching(request)] :
                   \A i, j \in 1..n : i < j => r[i].created_at > r[j].created_at
    IN  [i \in 1..n |-> rows[i].id]

\* C22: the ordering a caller supplies is validated against an allow-list
\* before use, so a value off the list is never applied to the catalog query;
\* without an ordering the results are ordered most-recently-created first.
C22_OrderingValidated ==
    search_call.pc = "done" =>
        /\ search_call.request.ordering # None =>
              \/ search_call.request.ordering \in OrderingAllowList
              \/ search_call.ordered_by # search_call.request.ordering
        /\ search_call.request.ordering = None =>
              /\ search_call.response.success
              /\ \E start \in 0..Cardinality(Catalog) :
                    search_call.response.results =
                       slice(NewestFirst(search_call.request), start,
                             start + Len(search_call.response.results))


\* The lower bound of the price range exceeds its upper bound.
InvertedRange(request) ==
    /\ request.price_min # Null
    /\ request.price_max # Null
    /\ request.price_min.n > request.price_max.n

\* C23: filter validation rejects a filter set whose lower bound of a range
\* exceeds its upper bound: the serializer reports an error for it and the
\* filter set never reaches the query executor.
C23_InvertedRangeRejected ==
    (search_call.pc # "call" /\ InvertedRange(search_call.request)) =>
        /\ search_call.pc = "rejected"
        /\ search_call.response.error_code = "INVALID_REQUEST"


\* The preference-map path has run on the preference map.
PreferencePathDone == npc = "done" /\ path = "prefs"

\* C24: in the preference-map path the price category alone fixes the price
\* bounds: economico gives price_max 50000 and no price_min, medio gives
\* price_min 30000 and price_max 100000, luxo gives price_min 100000 and no
\* price_max, any other or no category gives neither key.
C24_PriceCategoryBounds ==
    PreferencePathDone =>
        LET faixa_preco == dict_get(preferences, "faixa_preco", Null)
        IN  CASE faixa_preco = Str("economico") ->
                    /\ dict_get(filters, "price_max", Null) = Num(50000)
                    /\ ~dict_has(filters, "price_min")
              [] faixa_preco = Str("medio") ->
                    /\ dict_get(filters, "price_min", Null) = Num(30000)
                    /\ dict_get(filters, "price_max", Null) = Num(100000)
              [] faixa_preco = Str("luxo") ->
                    /\ dict_get(filters, "price_min", Null) = Num(100000)
                    /\ ~dict_has(filters, "price_max")
              [] OTHER ->
                    /\ ~dict_has(filters, "price_min")
                    /\ ~dict_has(filters, "price_max")

\* A luxury map that also names a brand, a year and a mileage: the price
\* bounds come from the category only.
C24_Witness ==
    /\ PreferencePathDone
    /\ dict_get(preferences, "faixa_preco", Null) = Str("luxo")
    /\ dict_has(preferences, "marca")
    /\ dict_has(preferences, "ano")
    /\ dict_has(preferences, "quilometragem")
    /\ dict_get(filters, "price_min", Null) = Num(100000)


\* The four year bounds of a filter set.
YearBounds ==
    {"year_manufacture_min", "year_manufacture_max", "year_model_min", "year_model_max"}

\* C25: for every preference map with an explicit integer year Y the filter
\* derived by the preference-map path has year_manufacture_min,
\* year_manufacture_max, year_model_min and year_model_max all equal to Y.
C25_IntegerYearPinsWindows ==
    (PreferencePathDone /\ dict_get(preferences, "ano", Null).t = "int") =>
        \A k \in YearBounds :
           dict_get(filters, k, Null) = dict_get(preferences, "ano", Null)

\* The year 0, which a truth test would skip, with a price category beside it.
C25_Witness ==
    /\ PreferencePathDone
    /\ dict_get(preferences, "ano", Null) = Num(0)
    /\ dict_has(preferences, "faixa_preco")
    /\ dict_get(filters, "year_model_max", Null) = Num(0)


(***************************************************************************)
(* Room assignment alone: two connections, each on a scope of its own,     *)
(* connect in either order.                                                *)
(***************************************************************************)
Users == {<<None, TRUE>>, <<"u1", FALSE>>, <<"u2", FALSE>>}

AnonIds == {None, "a1", "k1"}

SessionKeys == {None, "k1", "k2"}

Scopes ==
    {Scope(u[1], u[2], anon, sk) : u \in Users, anon \in AnonIds, sk \in SessionKeys}

InitRoom ==
    /\ \E s1 \in Scopes, s2 \in Scopes :
          GatewayStart({1, 2}, [c \in {1, 2} |-> IF c = 1 THEN s1 ELSE s2])
    /\ NormIdle
    /\ AgentIdle
    /\ CallsIdle

NextRoom == \E c \in Conns : Connect(c)

SpecRoom == InitRoom /\ [][NextRoom]_vars

\* The scope carries an authenticated user.
Authenticated(sc) == sc.user_id # None /\ ~sc.is_anonymous

\* The highest-priority identity a scope makes available: authenticated user
\* id, then anon_id cookie, then session key, then nothing.
TopIdentity(sc) ==
    IF Authenticated(sc) THEN <<"user", sc.user_id>>
    ELSE IF sc.anon_id # None THEN <<"anon_id", sc.anon_id>>
    ELSE IF sc.session_key # None THEN <<"session_key", sc.session_key>>
    ELSE <<"general", None>>

\* The same, with the session key that the room of an authenticated user
\* also carries.
TopIdentityWithSession(sc) ==
    IF Authenticated(sc)
    THEN <<"user", sc.user_id, sc.session_key>>
    ELSE <<TopIdentity(sc)[1], TopIdentity(sc)[2], None>>

BothConnected == conn[1] = "open" /\ conn[2] = "open"

\* C26: on connect the room is chosen by the highest-priority identity that
\* is available (authenticated user id, anon_id cookie, session key, shared
\* room 'general'); a lower-priority identity decides the room only when
\* every higher one is absent.
C26_RoomByTopIdentity ==
    /\ BothConnected =>
          (TopIdentity(scope[1]) = TopIdentity(scope[2]) => room[1] = room[2])
    /\ \A c \in Conns :
          conn[c] = "open" =>
             (room[c] = "general" <=> TopIdentity(scope[c])[1] = "general")

\* C26 as the code has it: the room of an authenticated user is chosen by
\* the user id together with the session key ('default' when absent); below
\* that the anon_id cookie, then the session key, then 'general' decide, each
\* only when every higher identity is absent.
C26_RoomByTopIdentityAndSession ==
    /\ BothConnected =>
          /\ TopIdentityWithSession(scope[1]) = TopIdentityWithSession(scope[2])
                => room[1] = room[2]
          /\ (TopIdentity(scope[1])[1] = TopIdentity(scope[2])[1]
                /\ TopIdentity(scope[1])[2] # TopIdentity(scope[2])[2])
                => room[1] # room[2]
    /\ \A c \in Conns :
          conn[c] = "open" =>
             (room[c] = "general" <=> TopIdentity(scope[c])[1] = "general")

\* Two anonymous connections with the same anon_id cookie and different
\* session keys share a room.
C26_Witness ==
    /\ BothConnected
    /\ ~Authenticated(scope[1]) /\ ~Authenticated(scope[2])
    /\ scope[1].anon_id # None
    /\ scope[1].anon_id = scope[2].anon_id
    /\ scope[1].session_key # None /\ scope[2].session_key # None
    /\ scope[1].session_key # scope[2].session_key
    /\ room[1] = room[2]


\* The turn went on to no search and produced a reply.
TurnAsked == TurnCompleted /\ last.done.asked

\* The items the accumulated map still lacks, in the priority brand/model,
\* price category, year.
MissingByPriority ==
    LET prefs == conversation_state.preferences
        lacks(k) == ~dict_has(prefs, k) \/ ~truthy(dict_get(prefs, k, Null))
        Test(item) == CASE item = "marca" -> lacks("marca") /\ lacks("modelo")
                        [] OTHER -> lacks(item)
    IN  SelectSeq(<<"marca", "faixa_preco", "ano">>, Test)

\* The texts that ask one question about an item.
QuestionsAbout(item) ==
    CASE item = "marca" ->
            {"Qual marca de carro voce prefere?", "Qual marca voce prefere?"}
      [] item = "faixa_preco" -> {"Qual sua faixa de preco?"}
      [] OTHER -> {"Que ano de carro voce procura?"}

\* C27: in a turn that does not search, the missing-info list is computed in
\* the fixed priority brand/model, price category, year, and the reply is
\* exactly one clarifying question about the first missing item of that list;
\* when nothing is missing the reply is the 'ready' acknowledgement.
C27_OneQuestionForFirstMissing ==
    TurnAsked =>
        /\ Len(last.done.reply) = 1
        /\ IF MissingByPriority = <<>>
           THEN last.done.reply[1] = ReadyText
           ELSE last.done.reply[1] \in QuestionsAbout(Head(MissingByPriority))


\* The payload is one range wrapper with several markers under a
\* range-capable key.
LoneRangeWrapper ==
    /\ NormalizedRaw
    /\ Len(RawItems) = 1
    /\ RawItems[1][1] \in RangeKeys
    /\ IsRangeWrapper(RawItems[1][2])
    /\ Len(RawItems[1][2].items) >= 2

\* C28: when a range wrapper carries several markers for the same bound, the
\* explicit forms ($gte then gte, $lte then lte) are checked before the
\* generic min / max and the first non-null value found in that order is the
\* bound emitted: a later marker never overwrites it, and a null earlier
\* marker never hides a non-null later one.
C28_FirstNonNullMarkerWins ==
    LoneRangeWrapper =>
        LET key == RawItems[1][1]
            w == RawItems[1][2].items
        IN  /\ dict_get(filters, key \o "_min", Null) = Carried(w, LowerMarkers)
            /\ dict_get(filters, key \o "_max", Null) = Carried(w, UpperMarkers)


\* The search_cars request has been answered and its entry appended.
SearchRecorded == search_call.pc \in {"done", "rejected"}

\* C29: each entry appended to the search history records the filters and the
\* pagination that the search_cars request actually used (also when they are
\* sent as flat fields of the request), with a timestamp, the success flag of
\* the reply, and a result count equal to the reply's total when the search
\* succeeded and 0 when it failed.
C29_EntryRecordsRequest ==
    SearchRecorded =>
        /\ Len(search_call.history) = 1
        /\ LET entry == search_call.history[1]
               request == search_call.request
               response == search_call.response
           IN  /\ entry.filters = request_object(request, FilterFields)
               /\ entry.pagination = request_object(request, PaginationFields)
               /\ entry.timestamp = 1
               /\ entry.success = response.success
               /\ entry.results_count = IF response.success THEN response.total ELSE 0


\* The turn reached the sufficiency decision: its extraction did not fail.
ReachedDecision == TurnDone /\ last.fault # "extract"

\* The turn took the search branch of the decision.
WentOnToSearch == ReachedDecision /\ ~last.done.asked /\ last.fault # "question"

\* The turn took the question branch of the decision.
WentOnToQuestion == ReachedDecision /\ ~WentOnToSearch

\* The map has a usable value.
HasUsableValue(prefs) == \E i \in DOMAIN prefs : truthy(prefs[i][2])

\* An earlier turn of the session went on to a search: the map it left, which
\* only a turn's merge changes and which every merge is followed by the
\* decision on, was sufficient.
SearchedBefore == HasUsableValue(last.before.preferences)

\* C30: sufficiency is monotonic over a session: no turn removes or nulls a
\* key of the accumulated preference map, so once one turn has gone on to a
\* search every later turn also goes on to a search, and a clarifying question
\* is asked only while the map has no usable value (the missing-info list
\* then names brand, price category and year together).
C30_SufficiencyMonotonic ==
    /\ TurnDone =>
          \A i \in DOMAIN last.before.preferences :
             LET k == last.before.preferences[i][1]
             IN  /\ dict_has(conversation_state.preferences, k)
                 /\ dict_get(conversation_state.preferences, k, Null) # Null
    /\ (ReachedDecision /\ SearchedBefore) => WentOnToSearch
    /\ WentOnToQuestion =>
          /\ ~HasUsableValue(conversation_state.preferences)
          /\ MissingByPriority = <<"marca", "faixa_preco", "ano">>

====
